---- MODULE Spec2Model ----
(***************************************************************************)
(* A model of lib/vdsm/storage/lvm.py: the LVM command engine (LVMCache.cmd *)
(* with its command semaphore, read-only lock and cached device filter)     *)
(* and the PV/VG/LV cache with its reload / invalidate / public operations. *)
(*                                                                          *)
(* Device names are integers, ordered as the strings are: 0 is the empty    *)
(* string, n > 0 is a clean name, -n is the name n written with             *)
(* surrounding whitespace.                                                  *)
(***************************************************************************)
EXTENDS Integers, Sequences, FiniteSets, TLC

VARIABLES
    cmdst,          \* per thread calling LVMCache.cmd(): position and locals
    sro,            \* per thread calling LVMCache.set_read_only(): position and locals
    cmd_sem,        \* LVMCache._cmd_sem: permits available
    ro_readers,     \* LVMCache._read_only_lock: threads holding it shared
    ro_writer,      \* LVMCache._read_only_lock: thread holding it exclusive ({} or {w})
    read_only,      \* LVMCache._read_only
    filter,         \* LVMCache._filter
    filterStale,    \* LVMCache._filterStale
    filterLock,     \* LVMCache._filterLock: holder ({} or {t})
    USER_DEV_LIST,  \* module constant read from irs.lvm_dev_whitelist
    lastSet         \* history: value of the most recently completed set_read_only()

cmdVars == <<cmdst, sro, cmd_sem, ro_readers, ro_writer, read_only,
             filter, filterStale, filterLock, USER_DEV_LIST, lastSet>>

\* The cache store of LVMCache, and a record of the last cache operation.
VARIABLES _pvs, _vgs, _lvs, _stalepv, _stalevg, _freshlv, last

VARIABLES
    _cache_lvs,     \* LVMCache._cache_lvs
    _stats,         \* LVMCache._stats: the counters of CacheStats
    host,           \* the storage and the host: what LVM would report
    rthreads,       \* per thread inside a reload or an operation: position and locals
    call,           \* history: the commands the last call issued and what it returned
    prev            \* history: the operation called before the last one, and its rc

VARIABLES
    _lock,          \* LVMCache._lock: holder ({} or {t})
    counted         \* history: the lookups counted since the last CacheStats.clear()

syncVars == <<_lock, counted>>

lookVars == <<_cache_lvs, _stats, host, rthreads, call, prev, syncVars>>

cacheVars == <<_pvs, _vgs, _lvs, _stalepv, _stalevg, _freshlv, last, lookVars>>

vars == <<cmdVars, cacheVars>>

-----------------------------------------------------------------------------
(* Program constants (class LVMCache).                                      *)

MAX_COMMANDS == 10

READ_ONLY_RETRIES == 4

\* RETRY_DELAY = 0.1 seconds, counted in milliseconds.
RETRY_DELAY == 100

RETRY_BACKUP_OFF == 2

\* Longest run of executions a runner plan describes: the two filter attempts,
\* the READ_ONLY_RETRIES retries, and one execution more that cmd() never makes.
PlanLen == 2 + READ_ONLY_RETRIES + 1

-----------------------------------------------------------------------------
(* Filter Builder and Config Renderer.                                      *)

SeqToSet(s) == {s[i] : i \in 1..Len(s)}

RECURSIVE SortedSeq(_)
SortedSeq(S) ==
    IF S = {} THEN <<>>
    ELSE LET m == CHOOSE x \in S : \A y \in S : x <= y
         IN  <<m>> \o SortedSeq(S \ {m})

\* str.strip(): the name without its surrounding whitespace.
Strip(d) == IF d < 0 THEN 0 - d ELSE d

NoFilter == [kind |-> "None"]

\* d.replace(r'\x', r'\\x'): the name 6 has a literal \x; its text with the
\* backslash doubled is 4, which sorts before the name 5 although 6 sorts
\* after it.  No other name has one.
Escape(d) == IF d = 6 THEN 4 ELSE d

\* A faulty _buildFilter, which lists the devices as they were given.
_buildFilter_m(devices) ==
    [kind |-> "filter", accept |-> devices, reject_all |-> TRUE]

\* _buildFilter(devices): '["a|^d1$|^d2$|", "r|.*|"]', or '["r|.*|"]' when no
\* device is left; accept lists the sorted accept patterns, the reject-all
\* pattern always closes the filter.
_buildFilter(devices) ==
    LET devs == {Strip(d) : d \in SeqToSet(devices) \cup SeqToSet(USER_DEV_LIST)} \ {0}
    IN  [kind |-> "filter", accept |-> SortedSeq({Escape(d) : d \in devs}),
         reject_all |-> TRUE]

Accepts(f, d) == \E i \in 1..Len(f.accept) : f.accept[i] = d

\* _buildConfig(dev_filter, locking_type): the other settings are fixed text.
_buildConfig(dev_filter, locking_type) ==
    [filter |-> dev_filter, locking_type |-> locking_type]

\* The locking_type argument of _addExtraCfg's call of _buildConfig.
LockingType(ro) == IF ro THEN "4" ELSE "1"

\* A mocked runner that fails its first f executions (rc = 5) and succeeds
\* afterwards: plan[e] is the exit code of its e-th execution.
FlipPlan(f) == [e \in 1..PlanLen |-> IF e <= f THEN 5 ELSE 0]

-----------------------------------------------------------------------------
(* LVMCache.cmd(): one thread's position (pc) and locals.                   *)

CmdIdle == [pc |-> "idle", devices |-> <<>>, plan |-> FlipPlan(0), stage |-> 1,
            full_cmd |-> NoFilter, rc |-> -1, out |-> 0, tries |-> 0,
            delay |-> 0, retry |-> 0, execs |-> <<>>, sleeps |-> <<>>,
            roAtAcquire |-> FALSE]

Outside == {"idle", "ret"}

\* Positions inside the with-block: holding a permit and the shared lock.
InBody == {"cfg", "gcf_build", "gcf_clear", "run", "inval", "sleep", "retry", "exit"}

\* Positions holding a semaphore permit.
HasPermit == InBody \cup {"shared", "exit_sem"}

-----------------------------------------------------------------------------
(* rwlock.RWLock, as the specification describes it: several shared holders *)
(* may proceed together; an exclusive holder waits for every holder.        *)

SharedFree == ro_writer = {}

ExclusiveFree == ro_writer = {} /\ ro_readers = {}

-----------------------------------------------------------------------------
(* Faulty variants of decisions taken below; the properties at the end of   *)
(* the module depend on the decisions being the right ones.                 *)

SemAvailable_m == TRUE

CmdLockFree_m == TRUE

SroLockFree_m == ro_writer = {}

\* Counters of CacheStats updated without taking its lock.
StatsLockFree_m == TRUE

\* A with self._lock block that keeps the lock as it ends.
Released_m(t) == {t}

\* A filter taken for stale at every use.
FilterIsStale_m == TRUE

MoreRetries_m(s) == s.retry < READ_ONLY_RETRIES + 1

NextDelay_m(d) == d + RETRY_DELAY

UseDevices_m(s) == FALSE

-----------------------------------------------------------------------------
(* LVMCache.cmd(), step by step.                                            *)

\* self._read_only_lock.shared: cmd() asks for the shared side.
CmdLockFree == SharedFree

\* self._read_only_lock.exclusive: set_read_only() asks for the exclusive side.
SroLockFree == ExclusiveFree

\* threading.BoundedSemaphore.acquire(): blocks while no permit is left.
SemAvailable == cmd_sem > 0

\* for retry in range(1, READ_ONLY_RETRIES + 1): another iteration follows.
MoreRetries(s) == s.retry < READ_ONLY_RETRIES

\* delay *= self.RETRY_BACKUP_OFF
NextDelay(d) == d * RETRY_BACKUP_OFF

\* if rc != 0 and self._read_only: enter the retry loop, else give up.
RoCheck(s) ==
    IF s.rc # 0 /\ read_only
    THEN [s EXCEPT !.delay = RETRY_DELAY, !.retry = 1, !.pc = "sleep"]
    ELSE [s EXCEPT !.pc = "exit"]

\* if wider_cmd != full_cmd: the wider-filter retry runs only with a new command.
WiderDiffers(s, conf) == conf # s.full_cmd

\* What follows _addExtraCfg() returning conf: the first attempt runs it; the
\* wider-filter retry runs it when it differs from the first command.
AfterCfg(s, conf) ==
    IF s.stage = 1
    THEN [s EXCEPT !.full_cmd = conf, !.pc = "run"]
    ELSE IF WiderDiffers(s, conf)
         THEN [s EXCEPT !.full_cmd = conf, !.tries = @ + 1, !.pc = "run"]
         ELSE RoCheck(s)

\* self._runner.run(full_cmd): the e-th execution of this invocation; out
\* carries e, so that a result tells which execution produced it.
Run(s, stageName) ==
    LET e  == Len(s.execs) + 1
        rc == s.plan[e]
    IN  [s EXCEPT !.rc = rc, !.out = e,
                  !.execs = Append(@, [stage |-> stageName,
                                       conf |-> s.full_cmd, rc |-> rc])]

\* A caller enters cmd(cmd, devices); the runner it meets follows plan.
CmdCall(t, Devs, Plans) ==
    /\ cmdst[t].pc \in Outside
    /\ \E d \in Devs, p \in Plans :
         cmdst' = [cmdst EXCEPT ![t] =
                     [CmdIdle EXCEPT !.pc = "sem", !.devices = d, !.plan = p]]
    /\ UNCHANGED <<sro, cmd_sem, ro_readers, ro_writer, read_only,
                   filter, filterStale, filterLock, USER_DEV_LIST, lastSet>>
    /\ UNCHANGED cacheVars

\* with self._cmd_sem
CmdAcquireSem(t) ==
    /\ cmdst[t].pc = "sem"
    /\ SemAvailable
    /\ cmd_sem' = cmd_sem - 1
    /\ cmdst' = [cmdst EXCEPT ![t].pc = "shared"]
    /\ UNCHANGED <<sro, ro_readers, ro_writer, read_only,
                   filter, filterStale, filterLock, USER_DEV_LIST, lastSet>>
    /\ UNCHANGED cacheVars

\* with self._read_only_lock.shared; tries = 1
CmdAcquireShared(t) ==
    /\ cmdst[t].pc = "shared"
    /\ CmdLockFree
    /\ ro_readers' = ro_readers \cup {t}
    /\ cmdst' = [cmdst EXCEPT ![t].pc = "cfg", ![t].stage = 1, ![t].tries = 1,
                              ![t].roAtAcquire = read_only]
    /\ UNCHANGED <<sro, cmd_sem, ro_writer, read_only,
                   filter, filterStale, filterLock, USER_DEV_LIST, lastSet>>
    /\ UNCHANGED cacheVars

\* if devices: (the wider command is rendered without devices)
UseDevices(s) == s.stage = 1 /\ s.devices # <<>>

\* _getCachedFilter(): if self._filterStale
FilterIsStale == filterStale

\* _addExtraCfg(cmd, devices): with devices the filter is built from them;
\* without (always so for the wider command) _getCachedFilter() takes the
\* filter lock and returns the memoized filter unless it is stale.
CmdAddExtraCfg(t) ==
    LET s == cmdst[t] IN
    /\ s.pc = "cfg"
    /\ IF UseDevices(s)
       THEN /\ cmdst' = [cmdst EXCEPT ![t] =
                  AfterCfg(s, _buildConfig(_buildFilter(s.devices),
                                           LockingType(read_only)))]
            /\ UNCHANGED filterLock
       ELSE /\ filterLock = {}
            /\ IF FilterIsStale
               THEN /\ filterLock' = {t}
                    /\ cmdst' = [cmdst EXCEPT ![t].pc = "gcf_build"]
               ELSE /\ cmdst' = [cmdst EXCEPT ![t] =
                          AfterCfg(s, _buildConfig(filter, LockingType(read_only)))]
                    /\ UNCHANGED filterLock
    /\ UNCHANGED <<sro, cmd_sem, ro_readers, ro_writer, read_only,
                   filter, filterStale, USER_DEV_LIST, lastSet>>
    /\ UNCHANGED cacheVars

\* _getCachedFilter(): self._filter = _buildFilter(multipath.getMPDevNamesIter())
GcfBuild(t, Mps) ==
    /\ cmdst[t].pc = "gcf_build"
    /\ \E mp \in Mps : filter' = _buildFilter(mp)
    /\ cmdst' = [cmdst EXCEPT ![t].pc = "gcf_clear"]
    /\ UNCHANGED <<sro, cmd_sem, ro_readers, ro_writer, read_only,
                   filterStale, filterLock, USER_DEV_LIST, lastSet>>
    /\ UNCHANGED cacheVars

\* _getCachedFilter(): self._filterStale = False; return self._filter (the
\* filter lock is released), and _addExtraCfg() renders the config.
GcfClear(t) ==
    LET s == cmdst[t] IN
    /\ s.pc = "gcf_clear"
    /\ filterStale' = FALSE
    /\ filterLock' = {}
    /\ cmdst' = [cmdst EXCEPT ![t] =
           AfterCfg(s, _buildConfig(filter, LockingType(read_only)))]
    /\ UNCHANGED <<sro, cmd_sem, ro_readers, ro_writer, read_only,
                   filter, USER_DEV_LIST, lastSet>>
    /\ UNCHANGED cacheVars

\* rc, out, err = self._runner.run(full_cmd), at the specific-filter attempt
\* and at the wider-filter retry; if rc == 0: return.
CmdRun(t) ==
    LET s == cmdst[t]
        r == Run(s, IF s.stage = 1 THEN "specific" ELSE "wider")
    IN
    /\ s.pc = "run"
    /\ cmdst' = [cmdst EXCEPT ![t] =
           IF r.rc = 0 THEN [r EXCEPT !.pc = "exit"]
           ELSE IF s.stage = 1 THEN [r EXCEPT !.pc = "inval"]
           ELSE RoCheck(r)]
    /\ UNCHANGED <<sro, cmd_sem, ro_readers, ro_writer, read_only,
                   filter, filterStale, filterLock, USER_DEV_LIST, lastSet>>
    /\ UNCHANGED cacheVars

\* self.invalidateFilter(), before the wider command is rendered.
CmdInvalidateFilter(t) ==
    /\ cmdst[t].pc = "inval"
    /\ filterStale' = TRUE
    /\ cmdst' = [cmdst EXCEPT ![t].pc = "cfg", ![t].stage = 2]
    /\ UNCHANGED <<sro, cmd_sem, ro_readers, ro_writer, read_only,
                   filter, filterLock, USER_DEV_LIST, lastSet>>
    /\ UNCHANGED cacheVars

\* time.sleep(delay); delay *= self.RETRY_BACKUP_OFF
CmdSleep(t) ==
    LET s == cmdst[t] IN
    /\ s.pc = "sleep"
    /\ cmdst' = [cmdst EXCEPT ![t] =
           [s EXCEPT !.sleeps = Append(@, s.delay),
                     !.delay = NextDelay(s.delay), !.pc = "retry"]]
    /\ UNCHANGED <<sro, cmd_sem, ro_readers, ro_writer, read_only,
                   filter, filterStale, filterLock, USER_DEV_LIST, lastSet>>
    /\ UNCHANGED cacheVars

\* tries += 1; rc, out, err = self._runner.run(full_cmd); if rc == 0: return
CmdRetry(t) ==
    LET s == cmdst[t]
        r == Run([s EXCEPT !.tries = @ + 1], "retry")
    IN
    /\ s.pc = "retry"
    /\ cmdst' = [cmdst EXCEPT ![t] =
           IF r.rc = 0 THEN [r EXCEPT !.pc = "exit"]
           ELSE IF MoreRetries(s) THEN [r EXCEPT !.retry = @ + 1, !.pc = "sleep"]
           ELSE [r EXCEPT !.pc = "exit"]]
    /\ UNCHANGED <<sro, cmd_sem, ro_readers, ro_writer, read_only,
                   filter, filterStale, filterLock, USER_DEV_LIST, lastSet>>
    /\ UNCHANGED cacheVars

\* Leaving the with-block: the shared lock is released first.
CmdReleaseShared(t) ==
    /\ cmdst[t].pc = "exit"
    /\ ro_readers' = ro_readers \ {t}
    /\ cmdst' = [cmdst EXCEPT ![t].pc = "exit_sem"]
    /\ sro' = [w \in DOMAIN sro |->
                 IF sro[w].pc \in {"excl", "set", "release"}
                 THEN [sro[w] EXCEPT !.heldBefore = @ \ {t}] ELSE sro[w]]
    /\ UNCHANGED <<cmd_sem, ro_writer, read_only,
                   filter, filterStale, filterLock, USER_DEV_LIST, lastSet>>
    /\ UNCHANGED cacheVars

\* Leaving the with-block: the permit is released and cmd() returns.
CmdReleaseSem(t) ==
    /\ cmdst[t].pc = "exit_sem"
    /\ cmd_sem' = cmd_sem + 1
    /\ cmdst' = [cmdst EXCEPT ![t].pc = "ret"]
    /\ sro' = [w \in DOMAIN sro |->
                 IF sro[w].pc \in {"excl", "set", "release"}
                 THEN [sro[w] EXCEPT !.startedBefore = @ \ {t}] ELSE sro[w]]
    /\ UNCHANGED <<ro_readers, ro_writer, read_only,
                   filter, filterStale, filterLock, USER_DEV_LIST, lastSet>>
    /\ UNCHANGED cacheVars

-----------------------------------------------------------------------------
(* LVMCache.set_read_only(value), step by step.                             *)

SroIdle == [pc |-> "idle", value |-> FALSE, startedBefore |-> {},
            heldBefore |-> {}, heldAtCall |-> {}]

\* A caller enters set_read_only(value). History: the cmd() invocations in
\* progress (startedBefore) and those holding the shared lock (heldBefore),
\* each invocation leaving the set as it returns / releases the lock;
\* heldAtCall keeps the holders met at the call.
SroCall(w) ==
    /\ sro[w].pc \in Outside
    /\ \E v \in BOOLEAN :
         sro' = [sro EXCEPT ![w] =
                   [pc |-> "excl", value |-> v,
                    startedBefore |-> {t \in DOMAIN cmdst : cmdst[t].pc \notin Outside},
                    heldBefore |-> ro_readers, heldAtCall |-> ro_readers]]
    /\ UNCHANGED <<cmdst, cmd_sem, ro_readers, ro_writer, read_only,
                   filter, filterStale, filterLock, USER_DEV_LIST, lastSet>>
    /\ UNCHANGED cacheVars

\* with self._read_only_lock.exclusive
SroAcquire(w) ==
    /\ sro[w].pc = "excl"
    /\ SroLockFree
    /\ ro_writer' = {w}
    /\ sro' = [sro EXCEPT ![w].pc = "set"]
    /\ UNCHANGED <<cmdst, cmd_sem, ro_readers, read_only,
                   filter, filterStale, filterLock, USER_DEV_LIST, lastSet>>
    /\ UNCHANGED cacheVars

\* if self._read_only != value: self._read_only = value
SroSet(w) ==
    /\ sro[w].pc = "set"
    /\ read_only' = IF read_only # sro[w].value THEN sro[w].value ELSE read_only
    /\ sro' = [sro EXCEPT ![w].pc = "release"]
    /\ UNCHANGED <<cmdst, cmd_sem, ro_readers, ro_writer,
                   filter, filterStale, filterLock, USER_DEV_LIST, lastSet>>
    /\ UNCHANGED cacheVars

\* Leaving the with-block: the exclusive lock is released and the call returns.
SroRelease(w) ==
    /\ sro[w].pc = "release"
    /\ ro_writer' = ro_writer \ {w}
    /\ lastSet' = sro[w].value
    /\ sro' = [sro EXCEPT ![w].pc = "ret"]
    /\ UNCHANGED <<cmdst, cmd_sem, ro_readers, read_only,
                   filter, filterStale, filterLock, USER_DEV_LIST>>
    /\ UNCHANGED cacheVars

-----------------------------------------------------------------------------
(* The cache store: entries, the maps, and the output rows of pvs/vgs/lvs.  *)

UNKNOWN == "[unknown]"

PV_FIELDS_LEN == 11

VG_FIELDS_LEN == 14

LV_FIELDS_LEN == 8

Stale(name) == [kind |-> "Stale", name |-> name]

Unreadable(name) == [kind |-> "Unreadable", name |-> name]

\* PV.is_stale, VG.is_stale, LV.is_stale, Stale.is_stale, Unreadable.is_stale
is_stale(e) == e.kind \in {"Stale", "Unreadable"}

\* PV.fromlvm(*fields), the fields the module reads later
PVfromlvm(row) ==
    [kind |-> "PV", name |-> row.name, vg_name |-> row.vg_name,
     pe_alloc_count |-> row.pe_alloc_count]

\* VG.fromlvm(*fields), pv_name being the list collected for the uuid
VGfromlvm(row, pv_names) ==
    [kind |-> "VG", name |-> row.name, uuid |-> row.uuid,
     pv_name |-> pv_names, free_count |-> row.free_count,
     extent_size |-> row.extent_size]

\* LV.fromlvm(*fields)
LVfromlvm(row) ==
    [kind |-> "LV", name |-> row.name, vg_name |-> row.vg_name,
     size |-> row.size, seg_start_pe |-> row.seg_start_pe,
     opened |-> row.opened, active |-> row.active]

\* dict operations
EmptyMap == [x \in {} |-> x]

\* A faulty deletion, which deletes nothing.
Del_m(m, ks) == m

Put(m, k, v) == [x \in DOMAIN m \cup {k} |-> IF x = k THEN v ELSE m[x]]

Del(m, ks) == [x \in DOMAIN m \ ks |-> m[x]]

\* The cache fields as one value.
Cache ==
    [pvs |-> _pvs, vgs |-> _vgs, lvs |-> _lvs,
     stalepv |-> _stalepv, stalevg |-> _stalevg, freshlv |-> _freshlv]

\* LVMCache.__init__: the cache fields
EmptyCache ==
    [pvs |-> EmptyMap, vgs |-> EmptyMap, lvs |-> EmptyMap,
     stalepv |-> TRUE, stalevg |-> TRUE, freshlv |-> {}]

-----------------------------------------------------------------------------
(* Reloads: the part of _reloadpvs/_reloadvgs/_reloadlvs under self._lock,  *)
(* given the result r = [rc, out] of the command.  Each yields the cache,   *)
(* the updated entries it returns and whether InvalidOutputLine was raised. *)

\* A faulty parse, which makes a record of every line.
ParsePvs_m(pvs, updated, out) ==
    LET rows == {out[i] : i \in 1..Len(out)}
        made == [n \in {row.name : row \in rows} |->
                   PVfromlvm(CHOOSE row \in rows : row.name = n)]
    IN  [pvs |-> [n \in DOMAIN pvs \cup DOMAIN made |->
                    IF n \in DOMAIN made THEN made[n] ELSE pvs[n]],
         updated |-> made,
         bad |-> \E row \in rows : row.len # PV_FIELDS_LEN]

RECURSIVE ParsePvs(_, _, _)
ParsePvs(pvs, updated, out) ==
    IF out = <<>>
    THEN [pvs |-> pvs, updated |-> updated, bad |-> FALSE]
    ELSE LET row == Head(out) IN
         IF row.len # PV_FIELDS_LEN
         THEN [pvs |-> pvs, updated |-> updated, bad |-> TRUE]
         ELSE IF row.name = UNKNOWN
         THEN ParsePvs(pvs, updated, Tail(out))
         ELSE ParsePvs(Put(pvs, row.name, PVfromlvm(row)),
                       Put(updated, row.name, PVfromlvm(row)), Tail(out))

\* A faulty _reloadpvs, which drops the entries it was asked about.
_reloadpvs_m(c, pvNames, r) ==
    LET scope == IF pvNames # {} THEN pvNames ELSE DOMAIN c.pvs IN
    [c |-> [c EXCEPT !.pvs = [p \in DOMAIN c.pvs \ scope |-> c.pvs[p]]],
     updated |-> EmptyMap, raised |-> FALSE]

_reloadpvs(c, pvNames, r) ==
    IF r.rc # 0
    THEN LET scope  == IF pvNames # {} THEN pvNames ELSE DOMAIN c.pvs
             marked == {p \in scope \cap DOMAIN c.pvs : is_stale(c.pvs[p])}
             pvs2   == [p \in DOMAIN c.pvs |->
                          IF p \in marked THEN Unreadable(c.pvs[p].name)
                          ELSE c.pvs[p]]
         IN  [c |-> [c EXCEPT !.pvs = pvs2],
              updated |-> [p \in marked |-> pvs2[p]], raised |-> FALSE]
    ELSE LET parsed == ParsePvs(c.pvs, EmptyMap, r.out) IN
         IF parsed.bad
         THEN [c |-> [c EXCEPT !.pvs = parsed.pvs],
               updated |-> parsed.updated, raised |-> TRUE]
         ELSE LET scope    == IF pvNames # {} THEN pvNames ELSE DOMAIN parsed.pvs
                  stalePVs == scope \ DOMAIN parsed.updated
              IN  [c |-> [c EXCEPT !.pvs = Del(parsed.pvs, stalePVs),
                                   !.stalepv = IF pvNames = {} THEN FALSE ELSE @],
                   updated |-> parsed.updated, raised |-> FALSE]

\* The rows of out kept by _reloadvgs: those whose pv_name is known.
KnownRows(out) == SelectSeq(out, LAMBDA row : row.pv_name # UNKNOWN)

\* vgsFields[uuid][pvNameIdx]: the pv_name of the rows of one uuid, in order
RECURSIVE PvNamesOf(_, _)
PvNamesOf(out, uuid) ==
    IF out = <<>> THEN <<>>
    ELSE IF Head(out).uuid = uuid
    THEN <<Head(out).pv_name>> \o PvNamesOf(Tail(out), uuid)
    ELSE PvNamesOf(Tail(out), uuid)

\* for fields in vgsFields.values(): one VG per uuid, in order of appearance
RECURSIVE UpsertVgs(_, _, _, _, _)
UpsertVgs(vgs, updated, rows, all, seen) ==
    IF rows = <<>>
    THEN [vgs |-> vgs, updated |-> updated]
    ELSE LET row == Head(rows) IN
         IF row.uuid \in seen
         THEN UpsertVgs(vgs, updated, Tail(rows), all, seen)
         ELSE LET vg == VGfromlvm(row, PvNamesOf(all, row.uuid)) IN
              UpsertVgs(Put(vgs, vg.name, vg), Put(updated, vg.name, vg),
                        Tail(rows), all, seen \cup {row.uuid})

\* if rc != 0: stale entries in scope become Unreadable (_reloadvgs goes on)
MarkUnreadableVgs(c, vgNames, r) ==
    IF r.rc # 0
    THEN LET scope == IF vgNames # {} THEN vgNames ELSE DOMAIN c.vgs IN
         [v \in DOMAIN c.vgs |->
            IF v \in scope /\ is_stale(c.vgs[v])
            THEN Unreadable(c.vgs[v].name) ELSE c.vgs[v]]
    ELSE c.vgs

_reloadvgs(c, vgNames, r) ==
    LET vgs1 == MarkUnreadableVgs(c, vgNames, r) IN
    IF \E i \in 1..Len(r.out) : r.out[i].len # VG_FIELDS_LEN
    THEN [c |-> [c EXCEPT !.vgs = vgs1], updated |-> EmptyMap, raised |-> TRUE]
    ELSE LET rows     == KnownRows(r.out)
             up       == UpsertVgs(vgs1, EmptyMap, rows, rows, {})
             scope    == IF vgNames # {} THEN vgNames ELSE DOMAIN up.vgs
             staleVGs == (scope \ DOMAIN up.updated) \cap DOMAIN up.vgs
         IN  [c |-> [c EXCEPT !.vgs = Del(up.vgs, staleVGs),
                              !.freshlv = @ \ staleVGs,
                              !.stalevg = IF vgNames = {} THEN FALSE ELSE @],
              updated |-> up.updated, raised |-> FALSE]

RECURSIVE ParseLvs(_, _, _)
ParseLvs(lvs, updated, out) ==
    IF out = <<>>
    THEN [lvs |-> lvs, updated |-> updated, bad |-> FALSE]
    ELSE LET row == Head(out)
             key == <<row.vg_name, row.name>>
         IN
         IF row.len # LV_FIELDS_LEN
         THEN [lvs |-> lvs, updated |-> updated, bad |-> TRUE]
         ELSE IF row.seg_start_pe = 0
         THEN ParseLvs(Put(lvs, key, LVfromlvm(row)),
                       Put(updated, key, LVfromlvm(row)), Tail(out))
         ELSE ParseLvs(lvs, updated, Tail(out))

\* The names of the cached LVs of a VG.
LvNamesIn(lvs, vgName) == {k[2] : k \in {x \in DOMAIN lvs : x[1] = vgName}}

_reloadlvs(c, vgName, lvNames, r) ==
    IF r.rc # 0
    THEN LET scope  == IF lvNames # {} THEN lvNames ELSE LvNamesIn(c.lvs, vgName)
             marked == {k \in DOMAIN c.lvs :
                          k[1] = vgName /\ k[2] \in scope /\ is_stale(c.lvs[k])}
             lvs2   == [k \in DOMAIN c.lvs |->
                          IF k \in marked THEN Unreadable(c.lvs[k].name)
                          ELSE c.lvs[k]]
         IN  [c |-> [c EXCEPT !.lvs = lvs2],
              updated |-> [k \in marked |-> lvs2[k]], raised |-> FALSE]
    ELSE LET parsed == ParseLvs(c.lvs, EmptyMap, r.out) IN
         IF parsed.bad
         THEN [c |-> [c EXCEPT !.lvs = parsed.lvs],
               updated |-> parsed.updated, raised |-> TRUE]
         ELSE LET scope    == IF lvNames # {} THEN lvNames
                              ELSE LvNamesIn(parsed.lvs, vgName)
                  staleLVs == {<<vgName, n>> : n \in scope} \ DOMAIN parsed.updated
              IN  [c |-> [c EXCEPT !.lvs = Del(parsed.lvs, staleLVs),
                                   !.freshlv = IF lvNames = {}
                                               THEN @ \cup {vgName} ELSE @],
                   updated |-> parsed.updated, raised |-> FALSE]

-----------------------------------------------------------------------------
(* Invalidation and removal primitives (each under self._lock).             *)

_invalidatepvs(c, pvNames) ==
    [c EXCEPT !.pvs = [p \in DOMAIN @ \cup pvNames |->
                         IF p \in pvNames THEN Stale(p) ELSE @[p]]]

_invalidatevgpvs(c, vgName) ==
    [c EXCEPT !.pvs = [p \in DOMAIN @ |->
                         IF ~is_stale(@[p]) /\ @[p].vg_name = vgName
                         THEN Stale(@[p].name) ELSE @[p]]]

\* A faulty _invalidateAllPvs, which leaves the global flag as it is.
_invalidateAllPvs_m(c) == [c EXCEPT !.pvs = EmptyMap]

_invalidateAllPvs(c) == [c EXCEPT !.stalepv = TRUE, !.pvs = EmptyMap]

\* A faulty _invalidatevgs, which leaves the entries as they are.
_invalidatevgs_m(c, vgNames) == c

_invalidatevgs(c, vgNames) ==
    [c EXCEPT !.vgs = [v \in DOMAIN @ \cup vgNames |->
                         IF v \in vgNames THEN Stale(v) ELSE @[v]]]

_invalidateAllVgs(c) ==
    [c EXCEPT !.stalevg = TRUE, !.vgs = EmptyMap, !.freshlv = {}]

_invalidatelvs(c, vgName, lvNames) ==
    IF lvNames # {}
    THEN LET keys == {<<vgName, n>> : n \in lvNames} IN
         [c EXCEPT !.lvs = [k \in DOMAIN @ \cup keys |->
                              IF k \in keys THEN Stale(k[2]) ELSE @[k]]]
    ELSE [c EXCEPT !.lvs = [k \in DOMAIN @ |->
                              IF ~is_stale(@[k]) /\ @[k].vg_name = vgName
                              THEN Stale(@[k].name) ELSE @[k]]]

_invalidateAllLvs(c) == [c EXCEPT !.freshlv = {}, !.lvs = EmptyMap]

_removelvs(c, vgName, lvNames) ==
    LET names == IF lvNames # {} THEN lvNames ELSE LvNamesIn(c.lvs, vgName)
    IN  [c EXCEPT !.lvs = Del(@, {<<vgName, n>> : n \in names})]

_removevgs(c, vgNames) == [c EXCEPT !.vgs = Del(@, vgNames)]

\* A faulty flush, which leaves the LVs.
flush_m(c) == [_invalidateAllVgs(_invalidateAllPvs(c)) EXCEPT !.freshlv = c.freshlv]

flush(c) == _invalidateAllLvs(_invalidateAllVgs(_invalidateAllPvs(c)))

-----------------------------------------------------------------------------
(* Lookups.  r is the result of the reload command, run only on a miss.     *)
(* Each yields the cache, the value returned (NoEntry for None), the rc of  *)
(* the commands run and whether InvalidOutputLine was raised.               *)

NoEntry == [kind |-> "None"]

Lookup(m, k) == IF k \in DOMAIN m THEN m[k] ELSE NoEntry

\* if not pv or pv.is_stale()
Miss(m, k) == IF k \notin DOMAIN m THEN TRUE ELSE is_stale(m[k])

getPv(c, pvName, r) ==
    IF Miss(c.pvs, pvName)
    THEN LET rl == _reloadpvs(c, {pvName}, r) IN
         [c |-> rl.c, val |-> Lookup(rl.updated, pvName),
          rcs |-> {r.rc}, raised |-> rl.raised]
    ELSE [c |-> c, val |-> c.pvs[pvName], rcs |-> {}, raised |-> FALSE]

getVg(c, vgName, r) ==
    IF Miss(c.vgs, vgName)
    THEN LET rl == _reloadvgs(c, {vgName}, r) IN
         [c |-> rl.c, val |-> Lookup(rl.updated, vgName),
          rcs |-> {r.rc}, raised |-> rl.raised]
    ELSE [c |-> c, val |-> c.vgs[vgName], rcs |-> {}, raised |-> FALSE]

\* getLv(vgName, lvName) with lvName given: a miss reloads the whole VG
getLv(c, vgName, lvName, r) ==
    IF Miss(c.lvs, <<vgName, lvName>>)
    THEN LET rl == _reloadlvs(c, vgName, {}, r) IN
         [c |-> rl.c, val |-> Lookup(rl.updated, <<vgName, lvName>>),
          rcs |-> {r.rc}, raised |-> rl.raised]
    ELSE [c |-> c, val |-> c.lvs[<<vgName, lvName>>], rcs |-> {}, raised |-> FALSE]

\* list(six.itervalues(m)), the order left aside
Values(m) == {m[k] : k \in DOMAIN m}

\* A command as a lookup issued it: the tool, the names asked and its result.
Cmd(tool, names, r) == [tool |-> tool, names |-> names, rc |-> r.rc, out |-> r.out]

\* stalepvs / stalevgs: the names of the stale entries of a map
StaleNames(m) == {k \in DOMAIN m : is_stale(m[k])}

\* getAllPvs(): ret is the list returned, cmds the commands run, miss the
\* counter of CacheStats that was incremented.
getAllPvs(c, r) ==
    IF c.stalepv
    THEN LET rl == _reloadpvs(c, {}, r) IN
         [c |-> rl.c, ret |-> Values(rl.updated), cmds |-> <<Cmd("pvs", {}, r)>>,
          miss |-> TRUE, raised |-> rl.raised]
    ELSE LET stalepvs == StaleNames(c.pvs) IN
         IF stalepvs # {}
         THEN LET rl  == _reloadpvs(c, stalepvs, r)
                  pvs == Del(c.pvs, stalepvs)
              IN  [c |-> rl.c,
                   ret |-> Values([p \in DOMAIN pvs \ DOMAIN rl.updated |-> pvs[p]])
                               \cup Values(rl.updated),
                   cmds |-> <<Cmd("pvs", stalepvs, r)>>,
                   miss |-> TRUE, raised |-> rl.raised]
         ELSE [c |-> c, ret |-> Values(c.pvs), cmds |-> <<>>,
               miss |-> FALSE, raised |-> FALSE]

getAllVgs(c, r) ==
    IF c.stalevg
    THEN LET rl == _reloadvgs(c, {}, r) IN
         [c |-> rl.c, ret |-> Values(rl.updated), cmds |-> <<Cmd("vgs", {}, r)>>,
          miss |-> TRUE, raised |-> rl.raised]
    ELSE LET stalevgs == StaleNames(c.vgs) IN
         IF stalevgs # {}
         THEN LET rl  == _reloadvgs(c, stalevgs, r)
                  vgs == Del(c.vgs, stalevgs)
              IN  [c |-> rl.c,
                   ret |-> Values([v \in DOMAIN vgs \ DOMAIN rl.updated |-> vgs[v]])
                               \cup Values(rl.updated),
                   cmds |-> <<Cmd("vgs", stalevgs, r)>>,
                   miss |-> TRUE, raised |-> rl.raised]
         ELSE [c |-> c, ret |-> Values(c.vgs), cmds |-> <<>>,
               miss |-> FALSE, raised |-> FALSE]

\* A faulty _lvs_needs_reload, which does not look at the cached entries.
_lvs_needs_reload_m(c, cache_lvs, vg_name) ==
    IF ~cache_lvs THEN TRUE ELSE vg_name \notin c.freshlv

_lvs_needs_reload(c, cache_lvs, vg_name) ==
    IF ~cache_lvs THEN TRUE
    ELSE IF vg_name \notin c.freshlv THEN TRUE
    ELSE \E k \in DOMAIN c.lvs : k[1] = vg_name /\ is_stale(c.lvs[k])

\* A faulty filter for getLv(vgName), which keeps the stale entries too.
OfVg_m(lvs, vgName) ==
    {lv \in Values(lvs) : IF is_stale(lv) THEN TRUE ELSE lv.vg_name = vgName}

\* [lv for lv in lvs.values() if not lv.is_stale() and lv.vg_name == vgName]
OfVg(lvs, vgName) ==
    {lv \in Values(lvs) : IF is_stale(lv) THEN FALSE ELSE lv.vg_name = vgName}

\* getLv(vgName) with no lvName
getLvs(c, cache_lvs, vgName, r) ==
    IF _lvs_needs_reload(c, cache_lvs, vgName)
    THEN LET rl == _reloadlvs(c, vgName, {}, r) IN
         [c |-> rl.c, ret |-> OfVg(rl.updated, vgName),
          cmds |-> <<Cmd("lvs", {}, r)>>, miss |-> TRUE, raised |-> rl.raised]
    ELSE [c |-> c, ret |-> OfVg(c.lvs, vgName), cmds |-> <<>>,
          miss |-> FALSE, raised |-> FALSE]

\* CacheStats.miss() and CacheStats.hit()
Counted(stats, miss) ==
    IF miss THEN [stats EXCEPT !.misses = @ + 1] ELSE [stats EXCEPT !.hits = @ + 1]

-----------------------------------------------------------------------------
(* Public operations, as functions of the cache and of the results of the   *)
(* commands they run.  PV names are absolute paths, which _fqpvname keeps;  *)
(* sizes are in bytes, as LVM prints them.  Each yields the cache, how the  *)
(* operation ended ("ret", or the raise: "raise_pre" before its command     *)
(* ran, "raise_cmd" after its command failed, "raise_parse" for             *)
(* InvalidOutputLine, "raise_env" for an error of the operating system,     *)
(* "raise_index" for an IndexError),                                        *)
(* rc of its own command (-1 if it ran none) and the rcs of all commands.   *)

Res(c, outcome, rc, rcs) == [c |-> c, outcome |-> outcome, rc |-> rc, rcs |-> rcs]

\* vdsm.common.units.MiB
MiB == 1048576

\* utils.round(n, size): n rounded up to a multiple of size
RoundUp(n, size) == ((n + size - 1) \div size) * size

\* lv_extents = int(lv.size) // extent_size
lv_extents(lv, extent_size) == lv.size \div extent_size

\* requested_extents = utils.round(size_mb * MiB, extent_size) // extent_size
requested_extents(size_mb, extent_size) ==
    RoundUp(size_mb * MiB, extent_size) \div extent_size

\* A faulty check for extendLV, which wants the LV larger than asked.
AlreadyExtended_m(lv, size_mb, extent_size) ==
    lv_extents(lv, extent_size) > requested_extents(size_mb, extent_size)

\* if lv_extents >= requested_extents (extendLV)
AlreadyExtended(lv, size_mb, extent_size) ==
    lv_extents(lv, extent_size) >= requested_extents(size_mb, extent_size)

\* if lv_extents <= requested_extents (reduceLV)
AlreadyReduced(lv, size_mb, extent_size) ==
    lv_extents(lv, extent_size) <= requested_extents(size_mb, extent_size)

\* A lookup whose value cannot be used: None, or Unreadable (AttributeError).
Unusable(g) == g.raised \/ g.val = NoEntry \/ is_stale(g.val)

resizePV(c, vgName, pvName, rc) ==
    IF rc # 0
    THEN Res(c, "raise_cmd", rc, {rc})
    ELSE Res(_invalidatevgs(_invalidatepvs(c, {pvName}), {vgName}), "ret", rc, {rc})

\* A faulty movePV, which invalidates nothing when pvmove failed.
movePV_m(c, vgName, pvName, r1, rc) ==
    LET g == getPv(_invalidatepvs(c, {pvName}), pvName, r1) IN
    IF Unusable(g)
    THEN Res(g.c, IF g.raised THEN "raise_parse" ELSE "raise_pre", -1, g.rcs)
    ELSE IF g.val.pe_alloc_count = 0
    THEN Res(g.c, "ret", -1, g.rcs)
    ELSE IF rc # 0
    THEN Res(g.c, "raise_cmd", rc, g.rcs \cup {rc})
    ELSE Res(_invalidatevgs(
                 _invalidatelvs(_invalidatepvs(g.c, {pvName}), vgName, {}),
                 {vgName}), "ret", rc, g.rcs \cup {rc})

movePV(c, vgName, pvName, r1, rc) ==
    LET g == getPv(_invalidatepvs(c, {pvName}), pvName, r1) IN
    IF Unusable(g)
    THEN Res(g.c, IF g.raised THEN "raise_parse" ELSE "raise_pre", -1, g.rcs)
    ELSE IF g.val.pe_alloc_count = 0
    THEN Res(g.c, "ret", -1, g.rcs)
    ELSE LET c2 == _invalidatevgs(
                     _invalidatelvs(_invalidatepvs(g.c, {pvName}), vgName, {}),
                     {vgName})
         IN  Res(c2, IF rc # 0 THEN "raise_cmd" ELSE "ret", rc, g.rcs \cup {rc})

\* _initpvs: pvcreate, then the devices are invalidated whatever rc is
_initpvs(c, devices) == _invalidatepvs(c, devices)

createVG(c, vgName, devices, envOk, rc1, rc2, rc3) ==
    IF ~envOk
    THEN Res(c, "raise_env", -1, {})
    ELSE LET c1 == _initpvs(c, devices) IN
         IF rc1 # 0 THEN Res(c1, "raise_cmd", rc1, {rc1})
         ELSE IF rc2 # 0 THEN Res(c1, "raise_cmd", rc2, {rc1, rc2})
         ELSE IF rc3 # 0 THEN Res(c1, "raise_cmd", rc3, {rc1, rc2, rc3})
         ELSE Res(_invalidatevgs(_invalidatepvs(c1, devices), {vgName}),
                  "ret", rc3, {rc1, rc2, rc3})

\* A faulty removeVG, which gives up when the deactivation failed.
removeVG_m(c, vgName, rc1, rc2) ==
    LET c1 == _invalidatelvs(c, vgName, {})
        c2 == _invalidatevgpvs(c1, vgName)
    IN  IF rc1 # 0
        THEN Res(c1, "raise_cmd", -1, {rc1})
        ELSE IF rc2 # 0
        THEN Res(_invalidatevgs(c2, {vgName}), "raise_cmd", rc2, {rc1, rc2})
        ELSE Res(_removevgs(c2, {vgName}), "ret", rc2, {rc1, rc2})

removeVG(c, vgName, rc1, rc2) ==
    LET c1 == _invalidatelvs(c, vgName, {})
        c2 == _invalidatevgpvs(c1, vgName)
    IN  IF rc2 # 0
        THEN Res(_invalidatevgs(c2, {vgName}), "raise_cmd", rc2, {rc1, rc2})
        ELSE Res(_removevgs(c2, {vgName}), "ret", rc2, {rc1, rc2})

extendVG(c, vgName, devices, r1, envOk, rc1, rc2) ==
    LET g == getVg(c, vgName, r1) IN
    IF Unusable(g)
    THEN Res(g.c, IF g.raised THEN "raise_parse" ELSE "raise_pre", -1, g.rcs)
    ELSE IF ~envOk
    THEN Res(g.c, "raise_env", -1, g.rcs)
    ELSE IF SeqToSet(g.val.pv_name) \cap devices # {}
    THEN Res(g.c, "raise_pre", -1, g.rcs)
    ELSE LET c1 == _initpvs(g.c, devices) IN
         IF rc1 # 0 THEN Res(c1, "raise_cmd", rc1, g.rcs \cup {rc1})
         ELSE IF rc2 # 0 THEN Res(c1, "raise_cmd", rc2, g.rcs \cup {rc1, rc2})
         ELSE Res(_invalidatevgs(_invalidatepvs(c1, devices), {vgName}),
                  "ret", rc2, g.rcs \cup {rc1, rc2})

reduceVG(c, vgName, pvName, rc) ==
    IF rc # 0
    THEN Res(c, "raise_cmd", rc, {rc})
    ELSE Res(_invalidatevgs(_invalidatepvs(c, {pvName}), {vgName}), "ret", rc, {rc})

\* A faulty changelv, which does not invalidate the LVs.
changelv_m(c, vg, lvs, rc) ==
    Res(c, IF rc # 0 THEN "raise_cmd" ELSE "ret", rc, {rc})

\* changelv(vg, lvs, attrs)
changelv(c, vg, lvs, rc) ==
    Res(_invalidatelvs(c, vg, lvs), IF rc # 0 THEN "raise_cmd" ELSE "ret", rc, {rc})

createLV(c, vgName, lvName, activate, envOk, rc1, rc2) ==
    IF rc1 # 0
    THEN Res(c, "raise_cmd", rc1, {rc1})
    ELSE LET c1 == _invalidatelvs(_invalidatevgs(c, {vgName}), vgName, {lvName}) IN
         IF activate
         THEN Res(c1, IF envOk THEN "ret" ELSE "raise_env", rc1, {rc1})
         ELSE LET ch == changelv(c1, vgName, {lvName}, rc2) IN
              Res(ch.c, ch.outcome, rc2, {rc1, rc2})

removeLVs(c, vgName, lvNames, rc) ==
    IF rc = 0
    THEN Res(_invalidatevgs(_removelvs(c, vgName, lvNames), {vgName}), "ret", rc, {rc})
    ELSE Res(_invalidatelvs(c, vgName, lvNames), "raise_cmd", rc, {rc})

\* What the checks of extendLV gave, with the local extent_size and whether
\* getLV was called.
Checked(res, extent_size, lvAsked) ==
    [c |-> res.c, outcome |-> res.outcome, rc |-> res.rc, rcs |-> res.rcs,
     extent_size |-> extent_size, lvAsked |-> lvAsked]

\* extendLV up to lvextend: "run" when the command is to run
extendLVChecks(c, vgName, lvName, size, r1, r2) ==
    LET g1 == getVg(c, vgName, r1)
        g2 == getLv(g1.c, vgName, lvName, r2)
    IN
    IF Unusable(g1)
    THEN Checked(Res(g1.c, IF g1.raised THEN "raise_parse" ELSE "raise_pre", -1,
                     g1.rcs), 0, FALSE)
    ELSE IF Unusable(g2)
    THEN Checked(Res(g2.c, IF g2.raised THEN "raise_parse" ELSE "raise_pre", -1,
                     g1.rcs \cup g2.rcs), 0, TRUE)
    ELSE Checked(Res(g2.c,
                     IF AlreadyExtended(g2.val, size, g1.val.extent_size)
                     THEN "ret" ELSE "run",
                     -1, g1.rcs \cup g2.rcs),
                 g1.val.extent_size, TRUE)

\* extendLV from lvextend on, pre being what the checks gave
extendLVRun(pre, vgName, lvName, size, rc, r4, r5) ==
    LET c3  == _invalidatelvs(_invalidatevgs(pre.c, {vgName}), vgName, {lvName})
        g4  == getLv(c3, vgName, lvName, r4)
        g5  == getVg(g4.c, vgName, r5)
        rcs == pre.rcs \cup {rc}
    IN
    IF pre.outcome # "run" THEN pre
    ELSE IF rc = 0 THEN Res(c3, "ret", rc, rcs)
    ELSE IF Unusable(g4)
    THEN Res(g4.c, IF g4.raised THEN "raise_parse" ELSE "raise_cmd", rc,
             rcs \cup g4.rcs)
    ELSE IF AlreadyExtended(g4.val, size, pre.extent_size)
    THEN Res(g4.c, "ret", rc, rcs \cup g4.rcs)
    ELSE Res(g5.c, IF g5.raised THEN "raise_parse" ELSE "raise_cmd", rc,
             rcs \cup g4.rcs \cup g5.rcs)

reduceLV(c, vgName, lvName, size, rc, r2, r3) ==
    IF rc = 0
    THEN Res(_invalidatelvs(_invalidatevgs(c, {vgName}), vgName, {lvName}),
             "ret", rc, {rc})
    ELSE LET g2 == getVg(c, vgName, r2)
             g3 == getLv(g2.c, vgName, lvName, r3)
         IN
         IF Unusable(g2)
         THEN Res(g2.c, IF g2.raised THEN "raise_parse" ELSE "raise_cmd", rc,
                  {rc} \cup g2.rcs)
         ELSE IF Unusable(g3)
         THEN Res(g3.c, IF g3.raised THEN "raise_parse" ELSE "raise_cmd", rc,
                  {rc} \cup g2.rcs \cup g3.rcs)
         ELSE Res(g3.c,
                  IF AlreadyReduced(g3.val, size, g2.val.extent_size)
                  THEN "ret" ELSE "raise_cmd",
                  rc, {rc} \cup g2.rcs \cup g3.rcs)

renameLV(c, vg, oldlv, newlv, rc, r2) ==
    IF rc # 0
    THEN Res(c, "raise_cmd", rc, {rc})
    ELSE LET rl == _reloadlvs(_removelvs(c, vg, {oldlv}), vg, {newlv}, r2) IN
         Res(rl.c, IF rl.raised THEN "raise_parse" ELSE "ret", rc, {rc, r2.rc})

\* refreshLVs -> _refreshLVs
refreshLVs(c, vgName, lvNames, rc) ==
    Res(_invalidatelvs(c, vgName, lvNames),
        IF rc # 0 THEN "raise_cmd" ELSE "ret", rc, {rc})

\* os.path.exists(lvPath(vgName, lvName)) on host h
_isLVActive(h, vgName, lvName) == <<vgName, lvName>> \in h.active

\* activateLVs: rc1 is the rc of lvchange --refresh, rc2 of lvchange --available y
activateLVs(c, h, vgName, lvNames, refresh, rc1, rc2) ==
    LET active   == {lv \in lvNames : _isLVActive(h, vgName, lv)}
        inactive == lvNames \ active
        rf == IF refresh /\ active # {}
              THEN refreshLVs(c, vgName, active, rc1)
              ELSE Res(c, "ret", -1, {})
    IN  IF rf.outcome # "ret" THEN rf
        ELSE IF inactive # {}
        THEN LET ch == changelv(rf.c, vgName, inactive, rc2) IN
             Res(ch.c, ch.outcome, rc2, rf.rcs \cup {rc2})
        ELSE rf

deactivateLVs(c, h, vgName, lvNames, rc) ==
    LET toDeactivate == {lv \in lvNames : _isLVActive(h, vgName, lv)} IN
    IF toDeactivate # {}
    THEN changelv(c, vgName, toDeactivate, rc)
    ELSE Res(c, "ret", -1, {})

\* With no tag to add or delete attrs is empty, and attrs[0] in changelv
\* raises IndexError before the command is built.
changeLVsTags(c, vg, lvs, delTags, addTags, rc) ==
    IF delTags \cap addTags # {}
    THEN Res(c, "raise_pre", -1, {})
    ELSE IF delTags \cup addTags = {}
    THEN Res(c, "raise_index", -1, {})
    ELSE changelv(c, vg, lvs, rc)

changeVGTags(c, vgName, delTags, addTags, rc) ==
    IF delTags \cap addTags # {}
    THEN Res(c, "raise_pre", -1, {})
    ELSE Res(_invalidatevgs(c, {vgName}),
             IF rc # 0 THEN "raise_cmd" ELSE "ret", rc, {rc})

-----------------------------------------------------------------------------
(* One caller using the cache: every reload and public operation is one     *)
(* step, its commands answered by the results drawn below.                  *)

CRcs == {0, 5}

\* The names the operations are called with.
CVg == "v1"

CPv == "p1"

CLv == "l1"

CNewLv == "l2"

\* The (delTags, addTags) pairs the tag operations are called with.
CTags == {<<{}, {"t"}>>, <<{"t"}, {"t"}>>}

\* The size in MiB asked of extendLV, and of reduceLV.
CExtendTo == {2}

CReduceTo == {1}

PvRow(n, alloc) ==
    [len |-> PV_FIELDS_LEN, name |-> n, vg_name |-> "v1", pe_alloc_count |-> alloc]

\* A line of vgs for v1, whose extents are of 1 MiB.
VgRow(pv, free) ==
    [len |-> VG_FIELDS_LEN, uuid |-> "u1", name |-> "v1", pv_name |-> pv,
     free_count |-> free, extent_size |-> MiB]

\* A line of lvs for an inactive LV of size_mb MiB that no process has open.
LvRow(n, size_mb) ==
    [len |-> LV_FIELDS_LEN, name |-> n, vg_name |-> "v1", size |-> size_mb * MiB,
     seg_start_pe |-> 0, opened |-> FALSE, active |-> FALSE]

\* The last output has a line with a field missing.
PvsOuts ==
    {<<>>, <<PvRow("p1", 0)>>, <<PvRow("p1", 1)>>,
     <<[PvRow("p1", 1) EXCEPT !.len = PV_FIELDS_LEN - 1]>>}

VgsOuts == {<<>>, <<VgRow("p1", 0)>>, <<VgRow("p2", 1)>>}

LvsOuts == {<<>>, <<LvRow("l1", 1)>>, <<LvRow("l1", 2), LvRow("l2", 1)>>}

\* Outputs naming only what the command was asked about ({} asks for all).
About(outs, names) ==
    {o \in outs : names = {} \/ \A i \in 1..Len(o) : o[i].name \in names}

Unused == [rc |-> 0, out |-> <<>>]

\* pvs and lvs: the output of a failed command is not read.
PvsResults(names) ==
    {[rc |-> 5, out |-> <<>>]} \cup {[rc |-> 0, out |-> o] : o \in About(PvsOuts, names)}

LvsResults(names) ==
    {[rc |-> 5, out |-> <<>>]} \cup {[rc |-> 0, out |-> o] : o \in About(LvsOuts, names)}

\* vgs: the output of a failed command is read too.
VgsResults ==
    {[rc |-> 5, out |-> <<>>], [rc |-> 5, out |-> <<VgRow("p1", 0)>>]}
        \cup {[rc |-> 0, out |-> o] : o \in VgsOuts}

\* Results for a lookup: drawn only when the lookup misses.
PvsFor(c, pv) == IF Miss(c.pvs, pv) THEN PvsResults({pv}) ELSE {Unused}

VgsFor(c, vg) == IF Miss(c.vgs, vg) THEN VgsResults ELSE {Unused}

LvsFor(c, vg, lv) == IF Miss(c.lvs, <<vg, lv>>) THEN LvsResults({}) ELSE {Unused}

\* What a step did to the maps and flags.
Deleted(b, a) ==
    \/ DOMAIN b.pvs \ DOMAIN a.pvs # {}
    \/ DOMAIN b.vgs \ DOMAIN a.vgs # {}
    \/ DOMAIN b.lvs \ DOMAIN a.lvs # {}

FreshIn(bm, am) ==
    \E k \in DOMAIN am : ~is_stale(am[k]) /\ (k \notin DOMAIN bm \/ bm[k] # am[k])

FreshTouched(b, a) ==
    FreshIn(b.pvs, a.pvs) \/ FreshIn(b.vgs, a.vgs) \/ FreshIn(b.lvs, a.lvs)

FlagCleared(b, a) ==
    (b.stalepv /\ ~a.stalepv) \/ (b.stalevg /\ ~a.stalevg)

\* The last operation: its name, how it ended, the rc of its own command
\* and whether every command it ran failed.
NoOp == [op |-> "none", outcome |-> "ret", rc |-> -1, allFailed |-> FALSE]

\* CacheStats.__init__
NoStats == [hits |-> 0, misses |-> 0]

NoCall == [cmds |-> <<>>, ret |-> {}]

NoCounts == [five |-> 0, other |-> 0]

\* A host with no LV active and the storage as it was first written.
IdleHost == [active |-> {}, gen |-> 0]

\* The cache after __init__ with cache_lvs given, on host h, used by threads.
InitCacheOn(cache_lvs, h, threads) ==
    /\ _pvs = EmptyCache.pvs
    /\ _vgs = EmptyCache.vgs
    /\ _lvs = EmptyCache.lvs
    /\ _stalepv = EmptyCache.stalepv
    /\ _stalevg = EmptyCache.stalevg
    /\ _freshlv = EmptyCache.freshlv
    /\ _cache_lvs = cache_lvs
    /\ _stats = NoStats
    /\ host = h
    /\ rthreads = threads
    /\ last = NoOp
    /\ call = NoCall
    /\ prev = <<NoOp.op, NoOp.rc>>
    /\ _lock = {}
    /\ counted = NoCounts

InitCache == InitCacheOn(FALSE, IdleHost, EmptyMap)

\* The cache and the record of the last operation after op ended as res says.
Stored(op, res) ==
    /\ _pvs' = res.c.pvs
    /\ _vgs' = res.c.vgs
    /\ _lvs' = res.c.lvs
    /\ _stalepv' = res.c.stalepv
    /\ _stalevg' = res.c.stalevg
    /\ _freshlv' = res.c.freshlv
    /\ last' = [op |-> op, outcome |-> res.outcome, rc |-> res.rc,
                allFailed |-> res.rcs # {} /\ 0 \notin res.rcs]

\* The step of operation op ending as res says.
Done(op, res) == Stored(op, res) /\ UNCHANGED <<cmdVars, lookVars>>

\* The step of operation op that issued cmds and returned ret, on a host
\* that it left alone.
Answered(op, res, cmds, ret) ==
    /\ Stored(op, res)
    /\ call' = [cmds |-> cmds, ret |-> ret]
    /\ UNCHANGED <<cmdVars, _cache_lvs, host, rthreads, syncVars>>

\* The step of operation op that left the host as h.
Changed(op, res, h) ==
    /\ Stored(op, res)
    /\ call' = NoCall
    /\ prev' = <<last.op, last.rc>>
    /\ host' = h
    /\ UNCHANGED <<cmdVars, _cache_lvs, rthreads, _stats, syncVars>>

\* The same of an internal step, which counts nothing.
Logged(op, res, cmds, ret) ==
    Answered(op, res, cmds, ret) /\ UNCHANGED <<prev, _stats>>

\* The same of a call that left the counters as stats.
Called(op, res, cmds, ret, stats) ==
    Answered(op, res, cmds, ret) /\ prev' = <<last.op, last.rc>> /\ _stats' = stats

Reloaded(rl, r) == Res(rl.c, IF rl.raised THEN "raise_parse" ELSE "ret", r.rc, {r.rc})

ReloadpvsScoped ==
    \E r \in PvsResults({CPv}) :
        Done("_reloadpvs", Reloaded(_reloadpvs(Cache, {CPv}, r), r))

ReloadvgsScoped ==
    \E r \in VgsResults :
        Done("_reloadvgs", Reloaded(_reloadvgs(Cache, {CVg}, r), r))

ReloadvgsAll ==
    \E r \in VgsResults :
        Done("_reloadvgs()", Reloaded(_reloadvgs(Cache, {}, r), r))

ReloadlvsScoped ==
    \E r \in LvsResults({CLv}) :
        Done("_reloadlvs", Reloaded(_reloadlvs(Cache, CVg, {CLv}, r), r))

ReloadlvsAll ==
    \E r \in LvsResults({}) :
        Done("_reloadlvs()", Reloaded(_reloadlvs(Cache, CVg, {}, r), r))

ResizePV ==
    \E rc \in CRcs : Done("resizePV", resizePV(Cache, CVg, CPv, rc))

MovePV ==
    \E rc \in CRcs : \E r1 \in PvsResults({CPv}) :
        Done("movePV", movePV(Cache, CVg, CPv, r1, rc))

CreateVG ==
    \E envOk \in BOOLEAN :
    \E rc1 \in IF envOk THEN CRcs ELSE {0} :
    \E rc2 \in IF envOk /\ rc1 = 0 THEN CRcs ELSE {0} :
    \E rc3 \in IF envOk /\ rc1 = 0 /\ rc2 = 0 THEN CRcs ELSE {0} :
        Done("createVG", createVG(Cache, CVg, {CPv}, envOk, rc1, rc2, rc3))

RemoveVG ==
    \E rc1 \in CRcs, rc2 \in CRcs : Done("removeVG", removeVG(Cache, CVg, rc1, rc2))

ExtendVG ==
    \E r1 \in VgsFor(Cache, CVg), envOk \in BOOLEAN :
    \E rc1 \in IF envOk THEN CRcs ELSE {0} :
    \E rc2 \in IF envOk /\ rc1 = 0 THEN CRcs ELSE {0} :
        Done("extendVG", extendVG(Cache, CVg, {CPv}, r1, envOk, rc1, rc2))

ReduceVG ==
    \E rc \in CRcs : Done("reduceVG", reduceVG(Cache, CVg, CPv, rc))

CreateLV ==
    \E activate \in BOOLEAN, rc1 \in CRcs :
    \E envOk \in IF activate /\ rc1 = 0 THEN BOOLEAN ELSE {TRUE} :
    \E rc2 \in IF ~activate /\ rc1 = 0 THEN CRcs ELSE {0} :
        Done("createLV", createLV(Cache, CVg, CLv, activate, envOk, rc1, rc2))

RemoveLVs ==
    \E rc \in CRcs : Done("removeLVs", removeLVs(Cache, CVg, {CLv}, rc))

ExtendLV ==
    \E size \in CExtendTo :
    \E r1 \in VgsFor(Cache, CVg), r2 \in LvsFor(Cache, CVg, CLv) :
    \E pre \in {extendLVChecks(Cache, CVg, CLv, size, r1, r2)} :
    \E rc \in IF pre.outcome = "run" THEN CRcs ELSE {0} :
    \E r4 \in IF pre.outcome = "run" /\ rc # 0 THEN LvsResults({}) ELSE {Unused} :
    \E r5 \in IF pre.outcome = "run" /\ rc # 0 /\ r4.rc = 0 /\ r4.out # <<>>
              THEN VgsResults ELSE {Unused} :
        Done("extendLV", extendLVRun(pre, CVg, CLv, size, rc, r4, r5))

ReduceLV ==
    \E size \in CReduceTo, rc \in CRcs :
    \E r2 \in IF rc = 0 THEN {Unused} ELSE VgsFor(Cache, CVg) :
    \E r3 \in IF rc = 0 THEN {Unused} ELSE LvsFor(Cache, CVg, CLv) :
        Done("reduceLV", reduceLV(Cache, CVg, CLv, size, rc, r2, r3))

RenameLV ==
    \E rc \in CRcs : \E r2 \in IF rc = 0 THEN LvsResults({CNewLv}) ELSE {Unused} :
        Done("renameLV", renameLV(Cache, CVg, CLv, CNewLv, rc, r2))

RefreshLVs ==
    \E rc \in CRcs : Done("refreshLVs", refreshLVs(Cache, CVg, {CLv}, rc))

ChangeLVsTags ==
    \E tags \in CTags, rc \in CRcs :
        Done("changeLVsTags", changeLVsTags(Cache, CVg, {CLv}, tags[1], tags[2], rc))

ChangeVGTags ==
    \E tags \in CTags, rc \in CRcs :
        Done("changeVGTags", changeVGTags(Cache, CVg, tags[1], tags[2], rc))

-----------------------------------------------------------------------------
(* Specifications of the command engine.                                    *)

\* The engine after __init__, with the given threads about to use it.
EngineInit(cmdThreads, sroThreads, ro, udl) ==
    /\ cmdst = [t \in cmdThreads |-> CmdIdle]
    /\ sro = [w \in sroThreads |-> SroIdle]
    /\ cmd_sem = MAX_COMMANDS
    /\ ro_readers = {}
    /\ ro_writer = {}
    /\ read_only = ro
    /\ filter = NoFilter
    /\ filterStale = TRUE
    /\ filterLock = {}
    /\ USER_DEV_LIST = udl
    /\ lastSet = ro

InitEngine(cmdThreads, sroThreads, ro, udl) ==
    EngineInit(cmdThreads, sroThreads, ro, udl) /\ InitCache

\* Spec: two threads in cmd() and one in set_read_only(), freely interleaved.
CmdThreads == {1, 2}

SroThreads == {3}

ConcDevs == {<<>>}

ConcPlans == {FlipPlan(0), FlipPlan(2)}

ConcMps == {<<1>>, <<1, 2>>}

Init == InitEngine(CmdThreads, SroThreads, FALSE, <<0>>)

Next ==
    \/ \E t \in DOMAIN cmdst : CmdCall(t, ConcDevs, ConcPlans)
    \/ \E t \in DOMAIN cmdst : CmdAcquireSem(t)
    \/ \E t \in DOMAIN cmdst : CmdAcquireShared(t)
    \/ \E t \in DOMAIN cmdst : CmdAddExtraCfg(t)
    \/ \E t \in DOMAIN cmdst : GcfBuild(t, ConcMps)
    \/ \E t \in DOMAIN cmdst : GcfClear(t)
    \/ \E t \in DOMAIN cmdst : CmdRun(t)
    \/ \E t \in DOMAIN cmdst : CmdInvalidateFilter(t)
    \/ \E t \in DOMAIN cmdst : CmdSleep(t)
    \/ \E t \in DOMAIN cmdst : CmdRetry(t)
    \/ \E t \in DOMAIN cmdst : CmdReleaseShared(t)
    \/ \E t \in DOMAIN cmdst : CmdReleaseSem(t)
    \/ \E w \in DOMAIN sro : SroCall(w)
    \/ \E w \in DOMAIN sro : SroAcquire(w)
    \/ \E w \in DOMAIN sro : SroSet(w)
    \/ \E w \in DOMAIN sro : SroRelease(w)

Spec == Init /\ [][Next]_vars

-----------------------------------------------------------------------------
(* SpecSem: one thread more than there are permits, each calling cmd() once *)
(* with devices given and a runner that succeeds.  The threads are          *)
(* interchangeable, so one representative per multiset of positions is      *)
(* explored: a thread moves only when its predecessor is further along.     *)

SemThreads == 1..(MAX_COMMANDS + 1)

Rank(p) ==
    CASE p = "idle" -> 0
      [] p = "sem" -> 1
      [] p = "shared" -> 2
      [] p = "cfg" -> 3
      [] p = "run" -> 4
      [] p = "exit" -> 5
      [] p = "exit_sem" -> 6
      [] OTHER -> 7

Canon(t) == IF t = 1 THEN TRUE ELSE Rank(cmdst[t - 1].pc) > Rank(cmdst[t].pc)

InitSem == InitEngine(SemThreads, {}, FALSE, <<0>>)

NextSem ==
    \/ \E t \in DOMAIN cmdst :
         Canon(t) /\ cmdst[t].pc = "idle" /\ CmdCall(t, {<<1>>}, {FlipPlan(0)})
    \/ \E t \in DOMAIN cmdst : Canon(t) /\ CmdAcquireSem(t)
    \/ \E t \in DOMAIN cmdst : Canon(t) /\ CmdAcquireShared(t)
    \/ \E t \in DOMAIN cmdst : Canon(t) /\ CmdAddExtraCfg(t)
    \/ \E t \in DOMAIN cmdst : Canon(t) /\ CmdRun(t)
    \/ \E t \in DOMAIN cmdst : Canon(t) /\ CmdReleaseShared(t)
    \/ \E t \in DOMAIN cmdst : Canon(t) /\ CmdReleaseSem(t)

SpecSem == InitSem /\ [][NextSem]_vars

-----------------------------------------------------------------------------
(* SpecCmd: one thread calling cmd() again and again, in either mode, with  *)
(* every devices argument, runner plan and multipath enumeration below.     *)

SeqDevs == {<<>>, <<1>>, <<2, 1>>}

SeqPlans == {FlipPlan(f) : f \in 0..PlanLen}

SeqMps == {<<1>>, <<1, 2>>}

SeqAllowlists == {<<0>>, <<3>>}

InitCmd == \E ro \in BOOLEAN, udl \in SeqAllowlists : InitEngine({1}, {}, ro, udl)

NextCmd ==
    \/ \E t \in DOMAIN cmdst : CmdCall(t, SeqDevs, SeqPlans)
    \/ \E t \in DOMAIN cmdst : CmdAcquireSem(t)
    \/ \E t \in DOMAIN cmdst : CmdAcquireShared(t)
    \/ \E t \in DOMAIN cmdst : CmdAddExtraCfg(t)
    \/ \E t \in DOMAIN cmdst : GcfBuild(t, SeqMps)
    \/ \E t \in DOMAIN cmdst : GcfClear(t)
    \/ \E t \in DOMAIN cmdst : CmdRun(t)
    \/ \E t \in DOMAIN cmdst : CmdInvalidateFilter(t)
    \/ \E t \in DOMAIN cmdst : CmdSleep(t)
    \/ \E t \in DOMAIN cmdst : CmdRetry(t)
    \/ \E t \in DOMAIN cmdst : CmdReleaseShared(t)
    \/ \E t \in DOMAIN cmdst : CmdReleaseSem(t)

SpecCmd == InitCmd /\ [][NextCmd]_vars

\* Every runner execution terminates and the thread is scheduled.
SpecCmdFair == SpecCmd /\ WF_vars(NextCmd)

-----------------------------------------------------------------------------
(* SpecCache: one caller reloading and operating on the cache.              *)

NextCache ==
    \/ ReloadpvsScoped
    \/ ReloadvgsScoped
    \/ ReloadvgsAll
    \/ ReloadlvsScoped
    \/ ReloadlvsAll
    \/ ResizePV
    \/ MovePV
    \/ CreateVG
    \/ RemoveVG
    \/ ExtendVG
    \/ ReduceVG
    \/ CreateLV
    \/ RemoveLVs
    \/ ExtendLV
    \/ ReduceLV
    \/ RenameLV
    \/ RefreshLVs
    \/ ChangeLVsTags
    \/ ChangeVGTags

SpecCache == InitEngine({}, {}, FALSE, <<0>>) /\ [][NextCache]_vars

-----------------------------------------------------------------------------
(* SpecReload: one caller reloading and invalidating PVs, VGs and LVs, with *)
(* and without names, the commands answered by the results drawn below.     *)

RlPvs == {"p1", "p2"}

\* The third output has a line for a device LVM cannot name, the last one a
\* line with a field missing.
RlPvsOuts ==
    {<<>>, <<PvRow("p1", 0)>>, <<PvRow(UNKNOWN, 0), PvRow("p2", 0)>>,
     <<PvRow("p1", 1), PvRow("p2", 0)>>,
     <<PvRow("p2", 0), [PvRow("p1", 0) EXCEPT !.len = PV_FIELDS_LEN - 1]>>}

\* The last output has a line for the second segment of an LV.
RlLvsOuts ==
    LvsOuts \cup {<<LvRow("l2", 1), [LvRow("l2", 1) EXCEPT !.seg_start_pe = 1]>>}

RlPvsResults(names) ==
    {[rc |-> 5, out |-> <<>>]} \cup {[rc |-> 0, out |-> o] : o \in About(RlPvsOuts, names)}

RlLvsResults(names) ==
    {[rc |-> 5, out |-> <<>>]} \cup {[rc |-> 0, out |-> o] : o \in About(RlLvsOuts, names)}

\* The name of a call with or without names.
OpName(base, names) == IF names = {} THEN base \o "()" ELSE base

DoReloadpvs ==
    \E names \in {{"p1"}, {}} : \E r \in RlPvsResults(names) :
    \E rl \in {_reloadpvs(Cache, names, r)} :
        Logged(OpName("_reloadpvs", names), Reloaded(rl, r),
               <<Cmd("pvs", names, r)>>, Values(rl.updated))

DoReloadvgs ==
    \E names \in {{CVg}, {}} : \E r \in VgsResults :
    \E rl \in {_reloadvgs(Cache, names, r)} :
        Logged(OpName("_reloadvgs", names), Reloaded(rl, r),
               <<Cmd("vgs", names, r)>>, Values(rl.updated))

DoReloadlvs ==
    \E names \in {{"l1"}, {}} : \E r \in RlLvsResults(names) :
    \E rl \in {_reloadlvs(Cache, CVg, names, r)} :
        Logged(OpName("_reloadlvs", names), Reloaded(rl, r),
               <<Cmd("lvs", names, r)>>, Values(rl.updated))

\* An invalidation: it runs no command and returns nothing.  It is recorded
\* as a call of its own when tracked, as an internal step otherwise.
Invalidated(tracked, op, c) ==
    IF tracked
    THEN Called(op, Res(c, "ret", -1, {}), <<>>, {}, _stats)
    ELSE Logged(op, Res(c, "ret", -1, {}), <<>>, {})

DoInvalidatepvs(tracked) ==
    \E pv \in RlPvs :
        Invalidated(tracked, "_invalidatepvs", _invalidatepvs(Cache, {pv}))

DoInvalidatevgs(tracked) ==
    Invalidated(tracked, "_invalidatevgs", _invalidatevgs(Cache, {CVg}))

DoInvalidatelvs(tracked, vgNames) ==
    \E vg \in vgNames, names \in {{"l1"}, {}} :
        Invalidated(tracked, OpName("_invalidatelvs", names),
                    _invalidatelvs(Cache, vg, names))

DoInvalidateAllPvs(tracked) ==
    Invalidated(tracked, "_invalidateAllPvs", _invalidateAllPvs(Cache))

DoInvalidateAllVgs(tracked) ==
    Invalidated(tracked, "_invalidateAllVgs", _invalidateAllVgs(Cache))

DoInvalidateAllLvs(tracked) ==
    Invalidated(tracked, "_invalidateAllLvs", _invalidateAllLvs(Cache))

NextReload ==
    \/ DoReloadpvs
    \/ DoReloadvgs
    \/ DoReloadlvs
    \/ DoInvalidatepvs(FALSE)
    \/ DoInvalidatevgs(FALSE)
    \/ DoInvalidatelvs(FALSE, {CVg})
    \/ DoInvalidateAllPvs(FALSE)
    \/ DoInvalidateAllVgs(FALSE)
    \/ DoInvalidateAllLvs(FALSE)

SpecReload == InitEngine({}, {}, FALSE, <<0>>) /\ [][NextReload]_vars

-----------------------------------------------------------------------------
(* SpecLook: one caller looking PVs, VGs and LVs up, one by one and all at  *)
(* once, invalidating them and flushing the cache, on a cache made in       *)
(* either mode of the engine.                                               *)

\* The number of lookups the caller makes.
MaxLookups == 3

\* A lookup of one entry, in the form of the lookups of all.
One(g, tool, names, r) ==
    [c |-> g.c, ret |-> {g.val},
     cmds |-> IF g.rcs = {} THEN <<>> ELSE <<Cmd(tool, names, r)>>,
     miss |-> g.rcs # {}, raised |-> g.raised]

\* The step of lookup op that went as g says.
Looked(op, g) ==
    /\ _stats.hits + _stats.misses < MaxLookups
    /\ Called(op,
              Res(g.c, IF g.raised THEN "raise_parse" ELSE "ret",
                  IF g.cmds = <<>> THEN -1 ELSE g.cmds[1].rc,
                  {g.cmds[i].rc : i \in 1..Len(g.cmds)}),
              g.cmds, IF g.raised THEN {} ELSE g.ret, Counted(_stats, g.miss))

\* The names a bulk lookup reloads: {} for all, or the stale ones.
BulkNames(flag, m) == IF flag THEN {} ELSE StaleNames(m)

DoGetPv ==
    \E r \in IF Miss(_pvs, CPv) THEN RlPvsResults({CPv}) ELSE {Unused} :
        Looked("getPv", One(getPv(Cache, CPv, r), "pvs", {CPv}, r))

DoGetVg ==
    \E r \in VgsFor(Cache, CVg) :
        Looked("getVg", One(getVg(Cache, CVg, r), "vgs", {CVg}, r))

DoGetLv ==
    \E r \in LvsFor(Cache, CVg, CLv) :
        Looked("getLv", One(getLv(Cache, CVg, CLv, r), "lvs", {}, r))

DoGetAllPvs ==
    \E r \in IF _stalepv \/ StaleNames(_pvs) # {}
              THEN RlPvsResults(BulkNames(_stalepv, _pvs)) ELSE {Unused} :
        Looked("getAllPvs", getAllPvs(Cache, r))

DoGetAllVgs ==
    \E r \in IF _stalevg \/ StaleNames(_vgs) # {} THEN VgsResults ELSE {Unused} :
        Looked("getAllVgs", getAllVgs(Cache, r))

DoFlush == Called("flush", Res(flush(Cache), "ret", -1, {}), <<>>, {}, _stats)

InitLook == \E ro \in BOOLEAN : InitEngine({}, {}, ro, <<0>>)

NextLook ==
    \/ DoGetPv
    \/ DoGetVg
    \/ DoGetLv
    \/ DoGetAllPvs
    \/ DoGetAllVgs
    \/ DoInvalidatepvs(TRUE)
    \/ DoInvalidatevgs(TRUE)
    \/ DoInvalidateAllPvs(TRUE)
    \/ DoInvalidateAllVgs(TRUE)
    \/ DoFlush

SpecLook == InitLook /\ [][NextLook]_vars

-----------------------------------------------------------------------------
(* SpecLv: one caller asking for all the LVs of one VG or of another, and   *)
(* invalidating LVs, on a cache made with cache_lvs or without.             *)

LvVgs == {"v1", "v2"}

\* What lvs prints for one VG.
LvsOutsOf(vg) ==
    {<<>>, <<[LvRow("l1", 1) EXCEPT !.vg_name = vg]>>,
     <<[LvRow("l1", 1) EXCEPT !.vg_name = vg], [LvRow("l2", 1) EXCEPT !.vg_name = vg]>>}

\* The name of the call getLv(vg).
GetLvOp(vg) == "getLv(" \o vg \o ")"

DoGetLvs ==
    \E vg \in LvVgs :
    \E r \in IF _lvs_needs_reload(Cache, _cache_lvs, vg)
              THEN {[rc |-> 5, out |-> <<>>]}
                       \cup {[rc |-> 0, out |-> o] : o \in LvsOutsOf(vg)}
              ELSE {Unused} :
        Looked(GetLvOp(vg), getLvs(Cache, _cache_lvs, vg, r))

InitLv ==
    \E cache_lvs \in BOOLEAN :
        /\ EngineInit({}, {}, FALSE, <<0>>)
        /\ InitCacheOn(cache_lvs, IdleHost, EmptyMap)

NextLv ==
    \/ DoGetLvs
    \/ DoInvalidatelvs(TRUE, LvVgs)

SpecLv == InitLv /\ [][NextLv]_vars

-----------------------------------------------------------------------------
(* SpecExtend: one caller extending an LV of a VG with extents of 128 MiB   *)
(* or of 4 MiB, and invalidating the VG and the LV.                         *)

\* The sizes in MiB asked of extendLV.
ExtSizes == {400, 513}

ExtVgsResults ==
    {[rc |-> 5, out |-> <<>>], [rc |-> 0, out |-> <<>>]}
        \cup {[rc |-> 0, out |-> <<[VgRow("p1", 4) EXCEPT !.extent_size = e * MiB]>>] :
                   e \in {128, 4}}

ExtLvsResults ==
    {[rc |-> 5, out |-> <<>>], [rc |-> 0, out |-> <<>>]}
        \cup {[rc |-> 0, out |-> <<LvRow(CLv, mb)>>] : mb \in {512, 384}}

\* The name of the call extendLV(vg, lv, size_mb).
ExtendOp(size_mb) == "extendLV(" \o ToString(size_mb) \o ")"

\* Whether extendLV, lvextend having failed with the reload r4 of the LV,
\* goes on to reload the VG.
ReloadsVg(pre, size, rc, r4) ==
    /\ pre.outcome = "run" /\ rc # 0 /\ r4.rc = 0 /\ r4.out # <<>>
    /\ ~AlreadyExtended(LVfromlvm(r4.out[1]), size, pre.extent_size)

\* The commands extendLV issued, in order.
ExtendCmds(vgMiss, lvMiss, pre, size, rc, r1, r2, r4, r5) ==
    (IF vgMiss THEN <<Cmd("vgs", {CVg}, r1)>> ELSE <<>>)
        \o (IF pre.lvAsked /\ lvMiss THEN <<Cmd("lvs", {}, r2)>> ELSE <<>>)
        \o (IF pre.outcome = "run"
            THEN <<Cmd("lvextend", {CLv}, [rc |-> rc, out |-> <<>>])>> ELSE <<>>)
        \o (IF pre.outcome = "run" /\ rc # 0 THEN <<Cmd("lvs", {}, r4)>> ELSE <<>>)
        \o (IF ReloadsVg(pre, size, rc, r4) THEN <<Cmd("vgs", {CVg}, r5)>> ELSE <<>>)

DoExtendLV ==
    \E size \in ExtSizes :
    \E r1 \in IF Miss(_vgs, CVg) THEN ExtVgsResults ELSE {Unused} :
    \E r2 \in IF Miss(_lvs, <<CVg, CLv>>) THEN ExtLvsResults ELSE {Unused} :
    \E pre \in {extendLVChecks(Cache, CVg, CLv, size, r1, r2)} :
    \E rc \in IF pre.outcome = "run" THEN CRcs ELSE {0} :
    \E r4 \in IF pre.outcome = "run" /\ rc # 0 THEN ExtLvsResults ELSE {Unused} :
    \E r5 \in IF ReloadsVg(pre, size, rc, r4) THEN ExtVgsResults ELSE {Unused} :
        Called(ExtendOp(size), extendLVRun(pre, CVg, CLv, size, rc, r4, r5),
               ExtendCmds(Miss(_vgs, CVg), Miss(_lvs, <<CVg, CLv>>), pre, size,
                          rc, r1, r2, r4, r5),
               {}, _stats)

NextExtend ==
    \/ DoExtendLV
    \/ DoInvalidatevgs(TRUE)
    \/ DoInvalidatelvs(TRUE, {CVg})

SpecExtend == InitEngine({}, {}, FALSE, <<0>>) /\ [][NextExtend]_vars

-----------------------------------------------------------------------------
(* SpecActivate: one caller activating and deactivating the LVs l1 and l2   *)
(* of a VG, with and without refresh, and reloading them.  lvs prints each  *)
(* LV as active when the host has its link; lvchange --available makes or   *)
(* removes the links of the LVs it is given, of some of them when it fails. *)

ActLvs == {"l1", "l2"}

\* The links of vg on host h after lvchange --available changed those of done.
Links(h, vg, done, available) ==
    [h EXCEPT !.active = IF available THEN @ \cup {<<vg, lv>> : lv \in done}
                         ELSE @ \ {<<vg, lv>> : lv \in done}]

\* The LVs a lvchange --available given lvs acted on.
DoneBy(lvs, rc) == IF rc = 0 THEN {lvs} ELSE SUBSET lvs

\* Whether activateLVs gets to run lvchange --available y.
Activates(h, vg, lvs, refresh, rc1) ==
    /\ \E lv \in lvs : ~_isLVActive(h, vg, lv)
    /\ IF refresh /\ (\E lv \in lvs : _isLVActive(h, vg, lv)) THEN rc1 = 0 ELSE TRUE

DoActivateLVs ==
    \E refresh \in BOOLEAN, rc1 \in CRcs, rc2 \in CRcs :
    \E res \in {activateLVs(Cache, host, CVg, ActLvs, refresh, rc1, rc2)} :
    \E done \in IF Activates(host, CVg, ActLvs, refresh, rc1)
                 THEN DoneBy({lv \in ActLvs : ~_isLVActive(host, CVg, lv)}, rc2)
                 ELSE {{}} :
        Changed("activateLVs", res, Links(host, CVg, done, TRUE))

DoDeactivateLVs ==
    \E rc \in CRcs :
    \E res \in {deactivateLVs(Cache, host, CVg, ActLvs, rc)} :
    \E done \in IF res.rcs # {}
                 THEN DoneBy({lv \in ActLvs : _isLVActive(host, CVg, lv)}, rc)
                 ELSE {{}} :
        Changed("deactivateLVs", res, Links(host, CVg, done, FALSE))

\* What lvs prints for the VG on host h.
ActLvsResults(h) ==
    {[rc |-> 5, out |-> <<>>],
     [rc |-> 0, out |-> <<[LvRow("l1", 1) EXCEPT !.active = _isLVActive(h, CVg, "l1")],
                          [LvRow("l2", 1) EXCEPT !.active = _isLVActive(h, CVg, "l2")]>>]}

DoLoadLvs ==
    \E r \in ActLvsResults(host) :
    \E rl \in {_reloadlvs(Cache, CVg, {}, r)} :
        Called("_reloadlvs()", Reloaded(rl, r), <<Cmd("lvs", {}, r)>>,
               Values(rl.updated), _stats)

NextActivate ==
    \/ DoActivateLVs
    \/ DoDeactivateLVs
    \/ DoLoadLvs

SpecActivate == InitEngine({}, {}, FALSE, <<0>>) /\ [][NextActivate]_vars

-----------------------------------------------------------------------------
(* SpecRace: two threads looking the LV l1 up with getLv(vg, lv) and one    *)
(* thread changing it with lvchange, step by step: a reload runs its        *)
(* command without self._lock and stores the result under it; the changing  *)
(* thread runs its command and then invalidates.  host.gen counts the       *)
(* changes made to the LV, and lvs prints the LV with 1 + host.gen MiB, so  *)
(* that a record tells which state of the storage it was made of.           *)

Readers == {"r1", "r2"}

Writer == "w"

\* The number of changes the writer makes.
MaxChanges == 2

\* A thread at rest; done is the number of changes whose invalidation the
\* thread has completed.
Resting == [pc |-> "idle", r |-> Unused, done |-> 0]

\* What lvs prints on host h, rc being its exit code.
RaceLvs(h, rc) ==
    [rc |-> rc, out |-> IF rc = 0 THEN <<LvRow(CLv, 1 + h.gen)>> ELSE <<>>]

\* A step of thread t of the race, which leaves t as st and the host as h.
Raced(t, op, res, cmds, ret, st, h) ==
    /\ Stored(op, res)
    /\ call' = [cmds |-> cmds, ret |-> ret]
    /\ rthreads' = [rthreads EXCEPT ![t] = st]
    /\ host' = h
    /\ UNCHANGED <<cmdVars, _cache_lvs, prev, _stats, syncVars>>

\* getLv(vg, lv): the entry is Fresh and is returned
RaceHit(t) ==
    /\ rthreads[t].pc = "idle"
    /\ ~Miss(_lvs, <<CVg, CLv>>)
    /\ Raced(t, "getLv", Res(Cache, "ret", -1, {}), <<>>, {_lvs[<<CVg, CLv>>]},
             rthreads[t], host)

\* getLv(vg, lv): the entry is missing or stale, and _reloadlvs runs lvs
RaceRunLvs(t) ==
    /\ rthreads[t].pc = "idle"
    /\ Miss(_lvs, <<CVg, CLv>>)
    /\ \E rc \in CRcs :
           Raced(t, "lvs", Res(Cache, "ret", rc, {rc}), <<Cmd("lvs", {}, RaceLvs(host, rc))>>,
                 {}, [rthreads[t] EXCEPT !.pc = "store", !.r = RaceLvs(host, rc)], host)

\* _reloadlvs under self._lock, and the return of getLv(vg, lv)
RaceStore(t) ==
    /\ rthreads[t].pc = "store"
    /\ \E rl \in {_reloadlvs(Cache, CVg, {}, rthreads[t].r)} :
           Raced(t, "_reloadlvs()", Reloaded(rl, rthreads[t].r), <<>>,
                 {Lookup(rl.updated, <<CVg, CLv>>)},
                 [rthreads[t] EXCEPT !.pc = "idle", !.r = Unused], host)

\* changelv: lvchange runs and changes the LV
RaceChange(t) ==
    /\ rthreads[t].pc = "idle"
    /\ host.gen < MaxChanges
    /\ Raced(t, "lvchange", Res(Cache, "ret", 0, {0}), <<>>, {},
             [rthreads[t] EXCEPT !.pc = "invalidate"],
             [host EXCEPT !.gen = @ + 1])

\* changelv: _invalidatelvs under self._lock, and the return
RaceInvalidate(t) ==
    /\ rthreads[t].pc = "invalidate"
    /\ Raced(t, "changelv", changelv(Cache, CVg, {CLv}, 0), <<>>, {},
             [rthreads[t] EXCEPT !.pc = "idle", !.done = host.gen], host)

InitRace ==
    /\ EngineInit({}, {}, FALSE, <<0>>)
    /\ InitCacheOn(FALSE, IdleHost, [t \in Readers \cup {Writer} |-> Resting])

NextRace ==
    \/ \E t \in Readers : RaceHit(t)
    \/ \E t \in Readers : RaceRunLvs(t)
    \/ \E t \in Readers : RaceStore(t)
    \/ RaceChange(Writer)
    \/ RaceInvalidate(Writer)

SpecRace == InitRace /\ [][NextRace]_vars

-----------------------------------------------------------------------------
(* SpecStats: threads looking entries up through every lookup that counts   *)
(* and clearing the counters.  A lookup decides from the maps whether it    *)
(* reloads, counts under the lock of CacheStats, and then reloads or        *)
(* answers from what it read.                                               *)

StatThreads == {"t1", "t2"}

\* The number of lookups counted between two clear().
MaxCounted == 2

\* The lookups of LVMCache that call stats.miss() or stats.hit().
FiveLookups == {"getPv", "getVg", "getLv", "getLv()", "getAllPvs", "getAllVgs"}

StatLookups == FiveLookups \cup {"getVgs", "getPvs"}

\* The lookups each thread calls.
StatCalls(t) ==
    IF t = "t1" THEN {"getPv", "getVg", "getLv", "getPvs"}
    ELSE {"getLv()", "getAllPvs", "getAllVgs", "getVgs"}

StatIdle ==
    [pc |-> "idle", op |-> "none", own |-> FALSE, miss |-> FALSE, tool |-> "none",
     names |-> {}, val |-> NoEntry, seen |-> 0, incs |-> <<0, 0>>]

\* What a lookup reads from the maps before it counts: whether it reloads,
\* with which command and names, and the entry it would answer with.
Decide(c, cache_lvs, op) ==
    CASE op = "getPv" ->
           [miss |-> Miss(c.pvs, CPv), tool |-> "pvs", names |-> {CPv},
            val |-> Lookup(c.pvs, CPv)]
      [] op \in {"getVg", "getPvs"} ->
           [miss |-> Miss(c.vgs, CVg), tool |-> "vgs", names |-> {CVg},
            val |-> Lookup(c.vgs, CVg)]
      [] op = "getLv" ->
           [miss |-> Miss(c.lvs, <<CVg, CLv>>), tool |-> "lvs", names |-> {},
            val |-> Lookup(c.lvs, <<CVg, CLv>>)]
      [] op = "getLv()" ->
           [miss |-> _lvs_needs_reload(c, cache_lvs, CVg), tool |-> "lvs",
            names |-> {}, val |-> NoEntry]
      [] op = "getAllPvs" ->
           [miss |-> IF c.stalepv THEN TRUE ELSE StaleNames(c.pvs) # {},
            tool |-> "pvs", names |-> BulkNames(c.stalepv, c.pvs), val |-> NoEntry]
      [] op = "getAllVgs" ->
           [miss |-> IF c.stalevg THEN TRUE ELSE StaleNames(c.vgs) # {},
            tool |-> "vgs", names |-> BulkNames(c.stalevg, c.vgs), val |-> NoEntry]
      [] op = "getVgs" ->
           [miss |-> TRUE, tool |-> "vgs", names |-> {CVg}, val |-> NoEntry]

\* getPvs after its getVg gave vg: the PVs of vg that are missing or stale.
DecidePvs(c, vg) ==
    LET stalepvs == {pv \in SeqToSet(vg.pv_name) : Miss(c.pvs, pv)} IN
    [miss |-> stalepvs # {}, tool |-> "pvs", names |-> stalepvs, val |-> NoEntry]

\* The reload a lookup runs.
StatReload(c, tool, names, r) ==
    CASE tool = "pvs" -> _reloadpvs(c, names, r)
      [] tool = "vgs" -> _reloadvgs(c, names, r)
      [] tool = "lvs" -> _reloadlvs(c, CVg, names, r)

StatResults(tool) ==
    {[rc |-> 5, out |-> <<>>],
     [rc |-> 0,
      out |-> CASE tool = "pvs" -> <<PvRow(CPv, 0)>>
                [] tool = "vgs" -> <<VgRow(CPv, 0)>>
                [] tool = "lvs" -> <<LvRow(CLv, 1)>>]}

\* CacheStats._lock is free.
StatsLockFree == \A u \in StatThreads : rthreads[u].pc # "write"

\* The lookups counted or about to be.
StatPending ==
    _stats.hits + _stats.misses
        + Cardinality({u \in StatThreads : rthreads[u].pc \in {"count", "write"}})

\* A step of thread t, now as s, that leaves the maps alone.
StatStep(t, s, st, n) ==
    /\ rthreads' = [rthreads EXCEPT ![t] = s]
    /\ _stats' = st
    /\ counted' = n
    /\ UNCHANGED <<cmdVars, _pvs, _vgs, _lvs, _stalepv, _stalevg, _freshlv, last,
                   _cache_lvs, host, call, prev, _lock>>

\* A lookup is called and reads the maps.
StatCall(t) ==
    /\ rthreads[t].pc = "idle"
    /\ StatPending < MaxCounted
    /\ \E op \in StatCalls(t) :
       \E d \in {Decide(Cache, _cache_lvs, op)} :
           StatStep(t, [rthreads[t] EXCEPT !.pc = "count", !.op = op, !.own = FALSE,
                                           !.miss = d.miss, !.tool = d.tool,
                                           !.names = d.names, !.val = d.val,
                                           !.incs = <<0, 0>>],
                    _stats, counted)

\* The count is that of one of the lookups of one entry or of all: getPvs
\* looks its VG up through getVg before it counts for itself.
CountsAsFive(s) == s.op \in FiveLookups \/ (s.op = "getPvs" /\ ~s.own)

\* CacheStats.miss() and hit(): with self._lock, read the counter ...
StatRead(t) ==
    /\ rthreads[t].pc = "count"
    /\ StatsLockFree
    /\ StatStep(t, [rthreads[t] EXCEPT
                       !.pc = "write",
                       !.seen = IF rthreads[t].miss THEN _stats.misses ELSE _stats.hits],
                _stats, counted)

\* ... and write it back, one more.
StatWrite(t) ==
    LET s == rthreads[t] IN
    /\ s.pc = "write"
    /\ StatStep(t, [s EXCEPT !.pc = "finish",
                             !.incs = IF s.miss THEN <<s.incs[1], s.incs[2] + 1>>
                                      ELSE <<s.incs[1] + 1, s.incs[2]>>],
                IF s.miss THEN [_stats EXCEPT !.misses = s.seen + 1]
                ELSE [_stats EXCEPT !.hits = s.seen + 1],
                IF CountsAsFive(s) THEN [counted EXCEPT !.five = @ + 1]
                ELSE [counted EXCEPT !.other = @ + 1])

\* The step of thread t, now as s, that ends or carries on operation op.
StatDone(t, s, op, res, cmds) ==
    /\ Stored(op, res)
    /\ call' = [cmds |-> cmds, ret |-> {}]
    /\ rthreads' = [rthreads EXCEPT ![t] = s]
    /\ UNCHANGED <<cmdVars, _cache_lvs, host, prev, _stats, syncVars>>

\* After counting: reload if the lookup decided so, and return; getPvs goes
\* on from its getVg to its own count, unless the VG has no pv_name.
StatFinish(t) ==
    LET s == rthreads[t] IN
    /\ s.pc = "finish"
    /\ \E r \in IF s.miss THEN StatResults(s.tool) ELSE {Unused} :
       \E rl \in {IF s.miss THEN StatReload(Cache, s.tool, s.names, r)
                  ELSE [c |-> Cache, updated |-> EmptyMap, raised |-> FALSE]} :
       LET cmds == IF s.miss THEN <<Cmd(s.tool, s.names, r)>> ELSE <<>>
           rc   == IF s.miss THEN r.rc ELSE -1
           rcs  == IF s.miss THEN {r.rc} ELSE {}
           vg   == IF s.miss THEN Lookup(rl.updated, CVg) ELSE s.val
       IN  IF rl.raised
           THEN StatDone(t, StatIdle, s.op,
                         Res(rl.c, "raise_parse", rc, rcs), cmds)
           ELSE IF s.op = "getPvs" /\ ~s.own
           THEN IF vg.kind # "VG"
                THEN StatDone(t, StatIdle, s.op,
                              Res(rl.c, "raise_env", rc, rcs), cmds)
                ELSE LET d == DecidePvs(rl.c, vg) IN
                     StatDone(t, [s EXCEPT !.pc = "count", !.own = TRUE,
                                           !.miss = d.miss, !.tool = d.tool,
                                           !.names = d.names, !.val = d.val],
                              "getVg", Res(rl.c, "ret", rc, rcs), cmds)
           ELSE StatDone(t, StatIdle, s.op,
                         Res(rl.c, "ret", rc, rcs), cmds)

\* CacheStats.clear(), under its lock
StatClear(t) ==
    /\ rthreads[t].pc = "idle"
    /\ StatsLockFree
    /\ _stats # NoStats
    /\ StatStep(t, rthreads[t], NoStats, NoCounts)

InitStats ==
    /\ EngineInit({}, {}, FALSE, <<0>>)
    /\ InitCacheOn(TRUE, IdleHost, [t \in StatThreads |-> StatIdle])

NextStats ==
    \/ \E t \in StatThreads : StatCall(t)
    \/ \E t \in StatThreads : StatRead(t)
    \/ \E t \in StatThreads : StatWrite(t)
    \/ \E t \in StatThreads : StatFinish(t)
    \/ \E t \in StatThreads : StatClear(t)

SpecStats == InitStats /\ [][NextStats]_vars

-----------------------------------------------------------------------------
(* SpecLocks: two threads reloading the LVs of a VG and invalidating them,  *)
(* and one calling set_read_only(), every lock taken in a step of its own.  *)
(* A reload reads the devices of the VG under self._lock, runs cmd() and    *)
(* stores the output under self._lock.                                      *)

LkThreads == {1, 2}

LkSro == {3}

LkPlans == {FlipPlan(0), FlipPlan(1)}

LkMps == {<<1>>}

LkIdle == [pc |-> "idle", devices |-> <<>>, rc |-> -1]

\* The multipath device of a PV.
DevOf(pv) == IF pv = "p1" THEN 1 ELSE 2

\* _getVGDevs(vgNames), the part under self._lock: the PVs of the VGs, or
\* none when a VG is unknown or stale.
_getVGDevs(c, vgNames) ==
    IF \A name \in vgNames : IF name \in DOMAIN c.vgs THEN c.vgs[name].kind = "VG" ELSE FALSE
    THEN SortedSeq({DevOf(pv) : pv \in UNION {SeqToSet(c.vgs[name].pv_name) :
                                                name \in vgNames}})
    ELSE <<>>

\* The holder of a lock after a with-block that t entered ends.
Released(t) == {}

\* A step of thread t outside cmd() and set_read_only(), which leaves t as s
\* and self._lock held as holder says.
LkStep(t, s, holder) ==
    /\ rthreads' = [rthreads EXCEPT ![t] = s]
    /\ _lock' = holder
    /\ UNCHANGED <<sro, cmd_sem, ro_readers, ro_writer, read_only,
                   filter, filterStale, filterLock, USER_DEV_LIST, lastSet>>
    /\ UNCHANGED <<_cache_lvs, _stats, host, call, prev, counted>>

LkSame == UNCHANGED <<_pvs, _vgs, _lvs, _stalepv, _stalevg, _freshlv, last>>

\* _reloadlvs(vgName) or _invalidatelvs(vgName) is called.
LkCall(t) ==
    /\ rthreads[t].pc = "idle"
    /\ \E pc \in {"devs", "inval"} : LkStep(t, [LkIdle EXCEPT !.pc = pc], _lock)
    /\ LkSame
    /\ UNCHANGED cmdst

\* _getVGDevs: with self._lock
LkAcquireDevs(t) ==
    /\ rthreads[t].pc = "devs"
    /\ _lock = {}
    /\ LkStep(t, [rthreads[t] EXCEPT !.pc = "devs_in"], {t})
    /\ LkSame
    /\ UNCHANGED cmdst

\* _getVGDevs: the devices are read and the block ends
LkGetVGDevs(t) ==
    /\ rthreads[t].pc = "devs_in"
    /\ LkStep(t, [rthreads[t] EXCEPT !.pc = "cmd", !.devices = _getVGDevs(Cache, {CVg})],
              Released(t))
    /\ LkSame
    /\ UNCHANGED cmdst

\* Thread t is inside self.cmd(cmd, devices).
InCmd(t) == rthreads[t].pc = "cmd"

\* rc, out, err = self.cmd(...) has returned; with self._lock
LkAcquireStore(t) ==
    /\ InCmd(t)
    /\ cmdst[t].pc = "ret"
    /\ _lock = {}
    /\ LkStep(t, [rthreads[t] EXCEPT !.pc = "store_in", !.rc = cmdst[t].rc], {t})
    /\ cmdst' = [cmdst EXCEPT ![t] = CmdIdle]
    /\ LkSame

\* _reloadlvs: the output is parsed and stored, and the block ends
LkStore(t) ==
    LET r  == [rc |-> rthreads[t].rc,
               out |-> IF rthreads[t].rc = 0 THEN <<LvRow(CLv, 1)>> ELSE <<>>]
        rl == _reloadlvs(Cache, CVg, {}, r)
    IN
    /\ rthreads[t].pc = "store_in"
    /\ LkStep(t, LkIdle, Released(t))
    /\ Stored("_reloadlvs()", Reloaded(rl, r))
    /\ UNCHANGED cmdst

\* _invalidatelvs: with self._lock
LkAcquireInval(t) ==
    /\ rthreads[t].pc = "inval"
    /\ _lock = {}
    /\ LkStep(t, [rthreads[t] EXCEPT !.pc = "inval_in"], {t})
    /\ LkSame
    /\ UNCHANGED cmdst

\* _invalidatelvs: the entries are marked and the block ends
LkInvalidate(t) ==
    /\ rthreads[t].pc = "inval_in"
    /\ LkStep(t, LkIdle, Released(t))
    /\ Stored("_invalidatelvs()", Res(_invalidatelvs(Cache, CVg, {}), "ret", -1, {}))
    /\ UNCHANGED cmdst

\* The steps of thread t.
LkNext(t) ==
    \/ LkCall(t)
    \/ LkAcquireDevs(t)
    \/ LkGetVGDevs(t)
    \/ InCmd(t) /\ cmdst[t].pc = "idle" /\ CmdCall(t, {rthreads[t].devices}, LkPlans)
    \/ InCmd(t) /\ CmdAcquireSem(t)
    \/ InCmd(t) /\ CmdAcquireShared(t)
    \/ InCmd(t) /\ CmdAddExtraCfg(t)
    \/ InCmd(t) /\ GcfBuild(t, LkMps)
    \/ InCmd(t) /\ GcfClear(t)
    \/ InCmd(t) /\ CmdRun(t)
    \/ InCmd(t) /\ CmdInvalidateFilter(t)
    \/ InCmd(t) /\ CmdSleep(t)
    \/ InCmd(t) /\ CmdRetry(t)
    \/ InCmd(t) /\ CmdReleaseShared(t)
    \/ InCmd(t) /\ CmdReleaseSem(t)
    \/ LkAcquireStore(t)
    \/ LkStore(t)
    \/ LkAcquireInval(t)
    \/ LkInvalidate(t)

\* The steps of thread w, which calls set_read_only().
LkSroNext(w) ==
    \/ SroCall(w)
    \/ SroAcquire(w)
    \/ SroSet(w)
    \/ SroRelease(w)

InitLocks ==
    /\ EngineInit(LkThreads, LkSro, FALSE, <<0>>)
    /\ InitCacheOn(FALSE, IdleHost, [t \in LkThreads |-> LkIdle])

NextLocks ==
    \/ \E t \in LkThreads : LkNext(t)
    \/ \E w \in LkSro : LkSroNext(w)

SpecLocks == InitLocks /\ [][NextLocks]_vars

-----------------------------------------------------------------------------
(* SpecGet: one caller asking the module for a PV and for a VG by name, and *)
(* invalidating them.                                                       *)

\* A faulty getPV, which returns whatever the lookup gave.
getPV_m(c, pvName, r) ==
    LET g == getPv(c, pvName, r) IN
    [c |-> g.c, val |-> g.val, rcs |-> g.rcs,
     outcome |-> IF g.raised THEN "raise_parse" ELSE "ret"]

\* getPV(pvName): if pv is None: raise se.InaccessiblePhysDev
getPV(c, pvName, r) ==
    LET g == getPv(c, pvName, r) IN
    [c |-> g.c, val |-> g.val, rcs |-> g.rcs,
     outcome |-> IF g.raised THEN "raise_parse"
                 ELSE IF g.val = NoEntry THEN "raise_missing" ELSE "ret"]

\* getVG(vgName): if not vg: raise se.VolumeGroupDoesNotExist
getVG(c, vgName, r) ==
    LET g == getVg(c, vgName, r) IN
    [c |-> g.c, val |-> g.val, rcs |-> g.rcs,
     outcome |-> IF g.raised THEN "raise_parse"
                 ELSE IF g.val = NoEntry THEN "raise_missing" ELSE "ret"]

\* The step of accessor op that went as g says, its reload running tool.
Got(op, g, tool, names, r) ==
    /\ _stats.hits + _stats.misses < MaxLookups
    /\ Called(op,
              Res(g.c, g.outcome, IF g.rcs = {} THEN -1 ELSE r.rc, g.rcs),
              IF g.rcs = {} THEN <<>> ELSE <<Cmd(tool, names, r)>>,
              IF g.outcome = "ret" THEN {g.val} ELSE {},
              Counted(_stats, g.rcs # {}))

DoGetPV ==
    \E r \in IF Miss(_pvs, CPv) THEN RlPvsResults({CPv}) ELSE {Unused} :
        Got("getPV", getPV(Cache, CPv, r), "pvs", {CPv}, r)

DoGetVG ==
    \E r \in VgsFor(Cache, CVg) :
        Got("getVG", getVG(Cache, CVg, r), "vgs", {CVg}, r)

NextGet ==
    \/ DoGetPV
    \/ DoGetVG
    \/ DoInvalidatepvs(TRUE)
    \/ DoInvalidatevgs(TRUE)

SpecGet == InitEngine({}, {}, FALSE, <<0>>) /\ [][NextGet]_vars

-----------------------------------------------------------------------------
(* SpecOps: one caller removing the VG, moving the data of its PV and       *)
(* changing tags, between reloads of the PV, the VG and the LV.  Each       *)
(* operation records the commands it ran.                                   *)

\* The (delTags, addTags) pairs of SpecOps: the last one names no tag.
OpTags == CTags \cup {<<{}, {}>>}

NoOut(rc) == [rc |-> rc, out |-> <<>>]

\* deactivateVG: vgchange --available n; removeVG: vgremove -f
DoRemoveVG ==
    \E rc1 \in CRcs, rc2 \in CRcs :
    \E res \in {removeVG(Cache, CVg, rc1, rc2)} :
        Logged("removeVG", res,
               <<Cmd("vgchange", {CVg}, NoOut(rc1))>>
                   \o (IF res.rc # -1
                       THEN <<Cmd("vgremove", {CVg}, NoOut(rc2))>> ELSE <<>>),
               {})

\* getPV(pvName) after _invalidatepvs(pvName), then pvmove
DoMovePV ==
    \E c0 \in {_invalidatepvs(Cache, {CPv})} :
    \E r1 \in PvsFor(c0, CPv) :
    \E rc \in CRcs :
    \E res \in {movePV(Cache, CVg, CPv, r1, rc)} :
        /\ res.rc # -1 \/ rc = 0
        /\ Logged("movePV", res,
                  (IF Miss(c0.pvs, CPv) THEN <<Cmd("pvs", {CPv}, r1)>> ELSE <<>>)
                      \o (IF res.rc # -1
                          THEN <<Cmd("pvmove", {CPv}, NoOut(rc))>> ELSE <<>>),
                  {})

DoChangeLVsTags ==
    \E tags \in OpTags, rc \in CRcs :
    \E res \in {changeLVsTags(Cache, CVg, {CLv}, tags[1], tags[2], rc)} :
        /\ res.rc # -1 \/ rc = 0
        /\ Logged("changeLVsTags", res,
                  IF res.rc # -1
                  THEN <<Cmd("lvchange", {CLv}, NoOut(rc))>> ELSE <<>>,
                  {})

DoChangeVGTags ==
    \E tags \in OpTags, rc \in CRcs :
    \E res \in {changeVGTags(Cache, CVg, tags[1], tags[2], rc)} :
        /\ res.rc # -1 \/ rc = 0
        /\ Logged("changeVGTags", res,
                  IF res.rc # -1
                  THEN <<Cmd("vgchange", {CVg}, NoOut(rc))>> ELSE <<>>,
                  {})

NextOps ==
    \/ DoRemoveVG
    \/ DoMovePV
    \/ DoChangeLVsTags
    \/ DoChangeVGTags
    \/ ReloadpvsScoped
    \/ ReloadvgsScoped
    \/ ReloadlvsScoped

SpecOps == InitEngine({}, {}, FALSE, <<0>>) /\ [][NextOps]_vars

-----------------------------------------------------------------------------
(* SpecBoot: one caller deactivating the unused LVs of the VG, as bootstrap *)
(* does for each VG, with LV caching enabled, between reloads and           *)
(* invalidations of its LVs.  The VG has the LVs l1, l2 and l3; l2 is in    *)
(* skiplvs and l3 is a prepared image.  Each LV is printed inactive, active *)
(* or active and open.                                                      *)

BootLvs == {"l1", "l2", "l3"}

skiplvs == {"l2"}

\* frozenset(os.path.basename(n) for n in glob.iglob(pattern))
prepared == {"l3"}

\* A line of lvs for the LV n: st is 0 (inactive), 1 (active), 2 (open).
BootRow(n, st) == [LvRow(n, 1) EXCEPT !.active = st >= 1, !.opened = st = 2]

BootResults ==
    {[rc |-> 5, out |-> <<>>]}
        \cup {[rc |-> 0, out |-> <<BootRow("l1", a), BootRow("l2", b), BootRow("l3", c)>>] :
                a \in 0..2, b \in 0..2, c \in 0..2}
        \cup {[rc |-> 0, out |-> <<BootRow("l1", a)>>] : a \in 0..2}

\* A faulty selection, which takes the open LVs too.
UnusedLVs_m(lvs, skip, prep) ==
    {lv.name : lv \in {x \in lvs : x.active /\ x.name \notin skip
                                     /\ x.name \notin prep}}

\* The names deactivateUnusedLVs collects from the LVs that getLv returned.
UnusedLVs(lvs, skip, prep) ==
    {lv.name : lv \in {x \in lvs : x.active /\ x.name \notin skip
                                     /\ x.name \notin prep /\ ~x.opened}}

\* deactivateUnusedLVs(vgname, skiplvs): seen is what getLv(vgname) returned,
\* names the LVs handed to lvchange --available n; the error of a failed
\* deactivation is caught.
deactivateUnusedLVs(c, cache_lvs, vgname, skip, prep, r, rc) ==
    LET g == getLvs(c, cache_lvs, vgname, r)
        deactivate == UnusedLVs(g.ret, skip, prep)
    IN  IF g.raised
        THEN [res |-> Res(g.c, "raise_parse", -1, {r.rc}), cmds |-> g.cmds,
              seen |-> {}, names |-> {}]
        ELSE IF deactivate = {}
        THEN [res |-> Res(g.c, "ret", -1, {c2.rc : c2 \in {g.cmds[i] : i \in 1..Len(g.cmds)}}),
              cmds |-> g.cmds, seen |-> g.ret, names |-> {}]
        ELSE LET ch == changelv(g.c, vgname, deactivate, rc) IN
             [res |-> Res(_invalidatelvs(ch.c, vgname, deactivate), "ret", rc,
                          {c2.rc : c2 \in {g.cmds[i] : i \in 1..Len(g.cmds)}} \cup {rc}),
              cmds |-> g.cmds \o <<Cmd("lvchange", deactivate, [rc |-> rc, out |-> <<>>])>>,
              seen |-> g.ret, names |-> deactivate]

DoDeactivateUnusedLVs ==
    \E r \in IF _lvs_needs_reload(Cache, _cache_lvs, CVg) THEN BootResults ELSE {Unused} :
    \E rc \in CRcs :
    \E d \in {deactivateUnusedLVs(Cache, _cache_lvs, CVg, skiplvs, prepared, r, rc)} :
        /\ d.names # {} \/ rc = 0
        /\ Logged("deactivateUnusedLVs", d.res, d.cmds, d.seen)

BootLoadLvs ==
    \E r \in BootResults :
    \E rl \in {_reloadlvs(Cache, CVg, {}, r)} :
        Logged("_reloadlvs()", Reloaded(rl, r), <<Cmd("lvs", {}, r)>>, {})

BootInvalidate ==
    \E names \in {{"l3"}, {}} :
        Logged(OpName("_invalidatelvs", names), Res(_invalidatelvs(Cache, CVg, names), "ret", -1, {}),
               <<>>, {})

NextBoot ==
    \/ DoDeactivateUnusedLVs
    \/ BootLoadLvs
    \/ BootInvalidate

InitBoot == EngineInit({}, {}, FALSE, <<0>>) /\ InitCacheOn(TRUE, IdleHost, EmptyMap)

SpecBoot == InitBoot /\ [][NextBoot]_vars

-----------------------------------------------------------------------------
(* SpecCreate: one caller creating the VG on one or two devices, between    *)
(* reloads of the PVs and of the VG.                                        *)

\* The device lists createVG is called with.
CreateDevs == {<<"p1">>, <<"p1", "p2">>, <<"p2", "p1">>}

\* A faulty createVG, which goes on to vgcreate after pvchange failed.
createVGCmds_m(vgName, pvs, envOk, rc1, rc2, rc3) ==
    IF ~envOk THEN <<>>
    ELSE <<Cmd("pvcreate", SeqToSet(pvs), [rc |-> rc1, out |-> <<>>])>>
         \o (IF rc1 # 0 THEN <<>>
             ELSE <<Cmd("pvchange", {pvs[1]}, [rc |-> rc2, out |-> <<>>]),
                    Cmd("vgcreate", {vgName} \cup SeqToSet(pvs),
                        [rc |-> rc3, out |-> <<>>])>>)

\* The commands of createVG(vgName, pvs): none when _checkpvsblksize or the
\* removal of the holders raised, then pvcreate of all the devices, pvchange
\* --metadataignore n of pvs[0] and vgcreate, each after the one before
\* returned 0.
createVGCmds(vgName, pvs, envOk, rc1, rc2, rc3) ==
    IF ~envOk THEN <<>>
    ELSE <<Cmd("pvcreate", SeqToSet(pvs), [rc |-> rc1, out |-> <<>>])>>
         \o (IF rc1 # 0 THEN <<>>
             ELSE <<Cmd("pvchange", {pvs[1]}, [rc |-> rc2, out |-> <<>>])>>
                  \o (IF rc2 # 0 THEN <<>>
                      ELSE <<Cmd("vgcreate", {vgName} \cup SeqToSet(pvs),
                                 [rc |-> rc3, out |-> <<>>])>>))

DoCreateVG ==
    \E pvs \in CreateDevs, envOk \in BOOLEAN :
    \E rc1 \in IF envOk THEN CRcs ELSE {0} :
    \E rc2 \in IF envOk /\ rc1 = 0 THEN CRcs ELSE {0} :
    \E rc3 \in IF envOk /\ rc1 = 0 /\ rc2 = 0 THEN CRcs ELSE {0} :
        Logged("createVG", createVG(Cache, CVg, SeqToSet(pvs), envOk, rc1, rc2, rc3),
               createVGCmds(CVg, pvs, envOk, rc1, rc2, rc3), {})

NextCreate ==
    \/ DoCreateVG
    \/ DoReloadpvs
    \/ DoReloadvgs

SpecCreate == InitEngine({}, {}, FALSE, <<0>>) /\ [][NextCreate]_vars

-----------------------------------------------------------------------------
(* SpecExtendErr: the caller of SpecExtend, each call of extendLV recording *)
(* the exception it raised once lvextend had failed.                        *)

\* A faulty extendLV, which does not invalidate the VG and the LV after
\* lvextend and so reads the records it had.
extendLVNamed_m(pre, vgName, lvName, size, rc, r4, r5) ==
    LET g4  == getLv(pre.c, vgName, lvName, r4)
        g5  == getVg(g4.c, vgName, r5)
        rcs == pre.rcs \cup {rc}
        e   == pre.extent_size
    IN
    IF pre.outcome # "run" THEN Res(pre.c, pre.outcome, pre.rc, pre.rcs)
    ELSE IF rc = 0 THEN Res(pre.c, "ret", rc, rcs)
    ELSE IF Unusable(g4) THEN Res(g4.c, "LogicalVolumeDoesNotExistError", rc, rcs \cup g4.rcs)
    ELSE IF AlreadyExtended(g4.val, size, e) THEN Res(g4.c, "ret", rc, rcs \cup g4.rcs)
    ELSE IF Unusable(g5) THEN Res(g5.c, "VolumeGroupDoesNotExist", rc, rcs \cup g4.rcs \cup g5.rcs)
    ELSE Res(g5.c,
             IF g5.val.free_count < requested_extents(size, e) - lv_extents(g4.val, e)
             THEN "VolumeGroupSizeError" ELSE "LogicalVolumeExtendError",
             rc, rcs \cup g4.rcs \cup g5.rcs)

\* extendLV from lvextend on, as extendLVRun, the outcome of a call whose
\* lvextend failed being the exception that reaches the caller: getLV raises
\* LogicalVolumeDoesNotExistError for None, lv.size of an Unreadable entry
\* raises AttributeError, getVG raises VolumeGroupDoesNotExist for None.
extendLVNamed(pre, vgName, lvName, size, rc, r4, r5) ==
    LET c3  == _invalidatelvs(_invalidatevgs(pre.c, {vgName}), vgName, {lvName})
        g4  == getLv(c3, vgName, lvName, r4)
        g5  == getVg(g4.c, vgName, r5)
        rcs == pre.rcs \cup {rc}
        e   == pre.extent_size
    IN
    IF pre.outcome # "run" THEN Res(pre.c, pre.outcome, pre.rc, pre.rcs)
    ELSE IF rc = 0 THEN Res(c3, "ret", rc, rcs)
    ELSE IF g4.raised THEN Res(g4.c, "InvalidOutputLine", rc, rcs \cup g4.rcs)
    ELSE IF g4.val = NoEntry
    THEN Res(g4.c, "LogicalVolumeDoesNotExistError", rc, rcs \cup g4.rcs)
    ELSE IF is_stale(g4.val) THEN Res(g4.c, "AttributeError", rc, rcs \cup g4.rcs)
    ELSE IF AlreadyExtended(g4.val, size, e) THEN Res(g4.c, "ret", rc, rcs \cup g4.rcs)
    ELSE IF g5.raised THEN Res(g5.c, "InvalidOutputLine", rc, rcs \cup g4.rcs \cup g5.rcs)
    ELSE IF g5.val = NoEntry
    THEN Res(g5.c, "VolumeGroupDoesNotExist", rc, rcs \cup g4.rcs \cup g5.rcs)
    ELSE IF is_stale(g5.val)
    THEN Res(g5.c, "AttributeError", rc, rcs \cup g4.rcs \cup g5.rcs)
    ELSE Res(g5.c,
             IF g5.val.free_count < requested_extents(size, e) - lv_extents(g4.val, e)
             THEN "VolumeGroupSizeError" ELSE "LogicalVolumeExtendError",
             rc, rcs \cup g4.rcs \cup g5.rcs)

\* The results of vgs for extendLV: the VG with 4 or 40 free extents.
ErrVgsResults ==
    ExtVgsResults
        \cup {[rc |-> 0, out |-> <<[VgRow("p1", 40) EXCEPT !.extent_size = 4 * MiB]>>]}

DoExtendLVNamed ==
    \E size \in ExtSizes :
    \E r1 \in IF Miss(_vgs, CVg) THEN ErrVgsResults ELSE {Unused} :
    \E r2 \in IF Miss(_lvs, <<CVg, CLv>>) THEN ExtLvsResults ELSE {Unused} :
    \E pre \in {extendLVChecks(Cache, CVg, CLv, size, r1, r2)} :
    \E rc \in IF pre.outcome = "run" THEN CRcs ELSE {0} :
    \E r4 \in IF pre.outcome = "run" /\ rc # 0 THEN ExtLvsResults ELSE {Unused} :
    \E r5 \in IF ReloadsVg(pre, size, rc, r4) THEN ErrVgsResults ELSE {Unused} :
        Called(ExtendOp(size), extendLVNamed(pre, CVg, CLv, size, rc, r4, r5),
               ExtendCmds(Miss(_vgs, CVg), Miss(_lvs, <<CVg, CLv>>), pre, size,
                          rc, r1, r2, r4, r5),
               {}, _stats)

NextExtendErr ==
    \/ DoExtendLVNamed
    \/ DoInvalidatevgs(TRUE)
    \/ DoInvalidatelvs(TRUE, {CVg})

SpecExtendErr == InitEngine({}, {}, FALSE, <<0>>) /\ [][NextExtendErr]_vars

-----------------------------------------------------------------------------
(* SpecFilter: _buildFilter applied to every list of at most FilterMaxLen   *)
(* names, with each user allowlist.                                         *)

FilterMaxLen == 3

\* A name with whitespace around it, the empty string, and three clean
\* names, the last of which has a literal \x.
FilterNames == {-1, 0, 1, 5, 6}

FilterInputs == UNION {[1..n -> FilterNames] : n \in 0..FilterMaxLen}

FilterAllowlists == {<<0>>, <<3>>, <<-1, 5>>}

InitFilter ==
    \E udl \in FilterAllowlists : InitEngine({1}, {}, FALSE, udl)

\* A call of _buildFilter(devices), the result kept in filter.
DoBuildFilter ==
    /\ \E devices \in FilterInputs :
         /\ cmdst' = [cmdst EXCEPT ![1].devices = devices]
         /\ filter' = _buildFilter(devices)
    /\ UNCHANGED <<sro, cmd_sem, ro_readers, ro_writer, read_only,
                   filterStale, filterLock, USER_DEV_LIST, lastSet>>
    /\ UNCHANGED cacheVars

NextFilter == DoBuildFilter

SpecFilter == InitFilter /\ [][NextFilter]_vars

-----------------------------------------------------------------------------
(* SpecParse: one caller reloading PVs, VGs and LVs, with and without       *)
(* names, in two steps: self._lock is taken, then the output of the command  *)
(* is parsed and stored and the block ends, by a return or by                *)
(* InvalidOutputLine.  The output, which nothing reads before the block, is  *)
(* drawn in the second step.  The outputs have lines for devices LVM cannot  *)
(* name and lines with a field missing after lines that are well formed.     *)
(* The invalidations take self._lock too.                                    *)

PrThread == 1

PrIdle == [pc |-> "idle", tool |-> "none", names |-> {}]

\* A line with a field missing.
Short(row) == [row EXCEPT !.len = @ - 1]

PrPvsOuts ==
    {<<>>, <<PvRow("p1", 0)>>, <<PvRow(UNKNOWN, 0)>>,
     <<PvRow(UNKNOWN, 0), PvRow("p1", 0)>>, <<PvRow(UNKNOWN, 0), PvRow("p2", 0)>>,
     <<PvRow("p1", 0), Short(PvRow("p1", 0))>>,
     <<PvRow("p2", 0), Short(PvRow("p1", 0))>>}

PrLvsOuts ==
    {<<>>, <<LvRow("l1", 1)>>, <<LvRow("l1", 1), LvRow("l2", 1)>>,
     <<LvRow("l1", 1), Short(LvRow("l1", 1))>>,
     <<LvRow("l2", 1), Short(LvRow("l1", 1))>>}

\* Outputs naming only what the command was asked about, or a device that
\* LVM cannot name.
AboutOrUnknown(outs, names) ==
    {o \in outs : IF names = {} THEN TRUE
                  ELSE \A i \in 1..Len(o) : o[i].name \in names \cup {UNKNOWN}}

PrResults(tool, names) ==
    IF tool = "pvs"
    THEN {[rc |-> 5, out |-> <<>>]}
             \cup {[rc |-> 0, out |-> o] : o \in AboutOrUnknown(PrPvsOuts, names)}
    ELSE IF tool = "vgs"
    THEN {[rc |-> 5, out |-> <<>>], [rc |-> 0, out |-> <<>>],
          [rc |-> 0, out |-> <<VgRow("p1", 0)>>]}
             \cup {[rc |-> rc, out |-> <<VgRow("p1", 0), Short(VgRow("p2", 1))>>] :
                       rc \in {0, 5}}
    ELSE {[rc |-> 5, out |-> <<>>]}
             \cup {[rc |-> 0, out |-> o] : o \in AboutOrUnknown(PrLvsOuts, names)}

PrNames(tool) ==
    IF tool = "pvs" THEN {{"p1"}, {}}
    ELSE IF tool = "vgs" THEN {{CVg}, {}}
    ELSE {{"l1"}, {}}

PrStep(s, holder, cl) ==
    /\ rthreads' = [rthreads EXCEPT ![PrThread] = s]
    /\ _lock' = holder
    /\ call' = cl
    /\ UNCHANGED <<cmdVars, _cache_lvs, _stats, host, prev, counted>>

\* rc, out, err = self.cmd(cmd); with self._lock:
PrEnter ==
    /\ rthreads[PrThread].pc = "idle"
    /\ _lock = {}
    /\ \E tool \in {"pvs", "vgs", "lvs"} : \E names \in PrNames(tool) :
           PrStep([pc |-> "store_in", tool |-> tool, names |-> names],
                  {PrThread}, call)
    /\ LkSame

\* The block of the reload that is in progress, whose command gave r, ends
\* as rl says.
PrLeave(base, r, rl) ==
    LET s == rthreads[PrThread] IN
    /\ PrStep(PrIdle, Released(PrThread),
              [cmds |-> <<Cmd(s.tool, s.names, r)>>, ret |-> {}])
    /\ Stored(OpName(base, s.names), Reloaded(rl, r))

\* Whether the block of a reload by the tool is in progress.
PrIn(tool) ==
    rthreads[PrThread].pc = "store_in" /\ rthreads[PrThread].tool = tool

PrStorePvs ==
    /\ PrIn("pvs")
    /\ \E r \in PrResults("pvs", rthreads[PrThread].names) :
           PrLeave("_reloadpvs", r, _reloadpvs(Cache, rthreads[PrThread].names, r))

PrStoreVgs ==
    /\ PrIn("vgs")
    /\ \E r \in PrResults("vgs", rthreads[PrThread].names) :
           PrLeave("_reloadvgs", r, _reloadvgs(Cache, rthreads[PrThread].names, r))

PrStoreLvs ==
    /\ PrIn("lvs")
    /\ \E r \in PrResults("lvs", rthreads[PrThread].names) :
           PrLeave("_reloadlvs", r,
                   _reloadlvs(Cache, CVg, rthreads[PrThread].names, r))

\* _invalidatepvs, _invalidatevgs, _invalidatelvs: with self._lock
PrInvalidate ==
    /\ rthreads[PrThread].pc = "idle"
    /\ _lock = {}
    /\ \/ Invalidated(FALSE, "_invalidatepvs", _invalidatepvs(Cache, {"p1"}))
       \/ Invalidated(FALSE, "_invalidatevgs", _invalidatevgs(Cache, {CVg}))
       \/ Invalidated(FALSE, "_invalidatelvs", _invalidatelvs(Cache, CVg, {"l1"}))

NextParse ==
    \/ PrEnter
    \/ PrStorePvs
    \/ PrStoreVgs
    \/ PrStoreLvs
    \/ PrInvalidate

InitParse ==
    /\ EngineInit({}, {}, FALSE, <<0>>)
    /\ InitCacheOn(FALSE, IdleHost, [t \in {PrThread} |-> PrIdle])

SpecParse == InitParse /\ [][NextParse]_vars

-----------------------------------------------------------------------------
(* SpecInvLv: one caller asking for all the LVs of one VG or of another and *)
(* invalidating all the LVs of a VG, as invalidateVG, deactivateVG, movePV   *)
(* and chkVG do, on a cache made with cache_lvs or without.                  *)

\* The name of the call _invalidatelvs(vg).
InvLvOp(vg) == "_invalidatelvs(" \o vg \o ")"

DoInvalidateVgLvs ==
    \E vg \in LvVgs :
        Invalidated(TRUE, InvLvOp(vg), _invalidatelvs(Cache, vg, {}))

NextInvLv ==
    \/ DoGetLvs
    \/ DoInvalidateVgLvs

SpecInvLv == InitLv /\ [][NextInvLv]_vars

-----------------------------------------------------------------------------
(* SpecFilterRace: two threads running commands, which take the global      *)
(* filter when given no devices, while the multipath devices change and the  *)
(* filter is invalidated after each change.  host.gen counts the changes,    *)
(* and multipath enumerates the one device 1 + host.gen, so that a filter    *)
(* tells which enumeration made it.  The cache is not read-only: a command   *)
(* that fails twice is not retried.                                          *)

FrThreads == {1, 2}

FrPlans == {FlipPlan(0), FlipPlan(1)}

\* The devices a command is given: none, or one that multipath does not name.
FrDevs == {<<>>, <<9>>}

\* multipath.getMPDevNamesIter() on host h
getMPDevNamesIter(h) == <<1 + h.gen>>

\* A step of the engine, which leaves the host and the record of what the
\* callers saw as they are.
FrEngine(t) ==
    \/ CmdAcquireSem(t)
    \/ CmdAcquireShared(t)
    \/ CmdAddExtraCfg(t)
    \/ GcfBuild(t, {getMPDevNamesIter(host)})
    \/ GcfClear(t)
    \/ CmdRun(t)
    \/ CmdInvalidateFilter(t)
    \/ CmdReleaseShared(t)
    \/ CmdReleaseSem(t)

\* Thread t enters cmd(cmd, devices); rthreads[t] keeps the number of
\* device changes, each followed by invalidateFilter(), that came before.
FrCall(t) ==
    /\ cmdst[t].pc \in Outside
    /\ \E d \in FrDevs, p \in FrPlans :
         cmdst' = [cmdst EXCEPT ![t] =
                     [CmdIdle EXCEPT !.pc = "sem", !.devices = d, !.plan = p]]
    /\ rthreads' = [rthreads EXCEPT ![t] = [sawGen |-> host.gen]]
    /\ UNCHANGED <<sro, cmd_sem, ro_readers, ro_writer, read_only,
                   filter, filterStale, filterLock, USER_DEV_LIST, lastSet>>
    /\ UNCHANGED <<_pvs, _vgs, _lvs, _stalepv, _stalevg, _freshlv, last,
                   _cache_lvs, _stats, host, call, prev, syncVars>>

\* The devices change and invalidateFilter() is called and returns.
FrInvalidateFilter ==
    /\ host.gen < MaxChanges
    /\ host' = [host EXCEPT !.gen = @ + 1]
    /\ filterStale' = TRUE
    /\ UNCHANGED <<cmdst, sro, cmd_sem, ro_readers, ro_writer, read_only,
                   filter, filterLock, USER_DEV_LIST, lastSet>>
    /\ UNCHANGED <<_pvs, _vgs, _lvs, _stalepv, _stalevg, _freshlv, last,
                   _cache_lvs, _stats, rthreads, call, prev, syncVars>>

NextFilterRace ==
    \/ \E t \in FrThreads : FrCall(t)
    \/ \E t \in FrThreads : FrEngine(t)
    \/ FrInvalidateFilter

InitFilterRace ==
    /\ EngineInit(FrThreads, {}, FALSE, <<0>>)
    /\ InitCacheOn(FALSE, IdleHost, [t \in FrThreads |-> [sawGen |-> 0]])

SpecFilterRace == InitFilterRace /\ [][NextFilterRace]_vars

-----------------------------------------------------------------------------
(* SpecExit: two threads in cmd() and one in set_read_only(), with runners  *)
(* that succeed sooner or later or never, and with a runner or a multipath   *)
(* enumeration that may raise; the exception leaves the with-blocks it is    *)
(* raised in on its way to the caller.                                       *)

\* The devices given are fewer than those multipath names, so that the wider
\* command differs from the first one.
ExitDevs == {<<1>>}

ExitMps == {<<1, 2>>}

\* Runners that succeed at once, at the wider command, in the retry loop of
\* a read-only cache, and never.
ExitPlans == {FlipPlan(0), FlipPlan(1), FlipPlan(2), FlipPlan(PlanLen)}

\* The first thread meets every runner, the others one that succeeds at once.
ExitPlansOf(t) == IF t = 1 THEN ExitPlans ELSE {FlipPlan(0)}

\* An exception that leaves the body of cmd() without releasing anything.
Raised_m(s) == [s EXCEPT !.pc = "ret", !.rc = -2]

\* An exception raised in the body of cmd(): the with-block is left as by a
\* return, and no value is returned (rc -2 stands for the exception).
Raised(s) == [s EXCEPT !.pc = "exit", !.rc = -2]

\* self._runner.run(full_cmd) raises, at any attempt
CmdRunRaises(t) ==
    /\ cmdst[t].pc \in {"run", "retry"}
    /\ cmdst' = [cmdst EXCEPT ![t] = Raised(cmdst[t])]
    /\ UNCHANGED <<sro, cmd_sem, ro_readers, ro_writer, read_only,
                   filter, filterStale, filterLock, USER_DEV_LIST, lastSet>>
    /\ UNCHANGED cacheVars

\* _getCachedFilter(): multipath.getMPDevNamesIter() raises; the block of the
\* filter lock is left with the filter and its flag as they were
GcfRaises(t) ==
    /\ cmdst[t].pc = "gcf_build"
    /\ filterLock' = {}
    /\ cmdst' = [cmdst EXCEPT ![t] = Raised(cmdst[t])]
    /\ UNCHANGED <<sro, cmd_sem, ro_readers, ro_writer, read_only,
                   filter, filterStale, USER_DEV_LIST, lastSet>>
    /\ UNCHANGED cacheVars

NextExit ==
    \/ \E t \in DOMAIN cmdst : CmdCall(t, ExitDevs, ExitPlansOf(t))
    \/ \E t \in DOMAIN cmdst : CmdAcquireSem(t)
    \/ \E t \in DOMAIN cmdst : CmdAcquireShared(t)
    \/ \E t \in DOMAIN cmdst : CmdAddExtraCfg(t)
    \/ \E t \in DOMAIN cmdst : GcfBuild(t, ExitMps)
    \/ \E t \in DOMAIN cmdst : GcfRaises(t)
    \/ \E t \in DOMAIN cmdst : GcfClear(t)
    \/ \E t \in DOMAIN cmdst : CmdRun(t)
    \/ \E t \in DOMAIN cmdst : CmdRunRaises(t)
    \/ \E t \in DOMAIN cmdst : CmdInvalidateFilter(t)
    \/ \E t \in DOMAIN cmdst : CmdSleep(t)
    \/ \E t \in DOMAIN cmdst : CmdRetry(t)
    \/ \E t \in DOMAIN cmdst : CmdReleaseShared(t)
    \/ \E t \in DOMAIN cmdst : CmdReleaseSem(t)
    \/ \E w \in DOMAIN sro : SroCall(w)
    \/ \E w \in DOMAIN sro : SroAcquire(w)
    \/ \E w \in DOMAIN sro : SroSet(w)
    \/ \E w \in DOMAIN sro : SroRelease(w)

SpecExit == InitEngine(CmdThreads, SroThreads, FALSE, <<0>>) /\ [][NextExit]_vars

-----------------------------------------------------------------------------
(* Properties of the command engine.                                        *)

RECURSIVE Pow(_, _)
Pow(b, n) == IF n = 0 THEN 1 ELSE b * Pow(b, n - 1)

\* Number of leading runner executions that fail under a plan.
PlanFails(plan) == Cardinality({e \in 1..PlanLen : plan[e] # 0})

\* Executions made by the two filter attempts (specific, then wider).
FilterAttempts(s) ==
    Cardinality({i \in 1..Len(s.execs) : s.execs[i].stage \in {"specific", "wider"}})

WiderRan(s) == \E i \in 1..Len(s.execs) : s.execs[i].stage = "wider"

PermitHolders == {t \in DOMAIN cmdst : cmdst[t].pc \in HasPermit}

Executing == {t \in DOMAIN cmdst : cmdst[t].pc \in {"run", "retry"}}

\* Device names a filter can be asked about in this model.
AllNames == {1, 2, 3}

Clean(devices) == {Strip(d) : d \in SeqToSet(devices)} \ {0}

AcceptSet(f) == {d \in AllNames : Accepts(f, d)}

\* C1: at no time do more than MAX_COMMANDS threads hold a permit of the
\* command semaphore (be inside the body of cmd()), so at most MAX_COMMANDS
\* runner executions are in progress; the permits left are those not held.
C1_AtMostMaxCommands ==
    /\ Cardinality(PermitHolders) <= MAX_COMMANDS
    /\ Cardinality(Executing) <= MAX_COMMANDS
    /\ cmd_sem = MAX_COMMANDS - Cardinality(PermitHolders)

\* MAX_COMMANDS runner executions in progress while one more caller waits
\* for a permit.
C1_Witness ==
    /\ Cardinality({t \in DOMAIN cmdst : cmdst[t].pc = "run"}) = MAX_COMMANDS
    /\ \E t \in DOMAIN cmdst : cmdst[t].pc = "sem"

\* C2 (as stated): when set_read_only() returns, every cmd() invocation that
\* was in progress when it began, one still waiting for a permit or for the
\* shared lock included, has returned.
C2_AllStartedReturned ==
    \A w \in DOMAIN sro : sro[w].pc = "ret" => sro[w].startedBefore = {}

\* C2 (amended): from the moment set_read_only() holds the exclusive lock up
\* to its return, every cmd() invocation that held the shared lock when it
\* began has released it, all its runner executions made.
C2_HoldersReleased ==
    \A w \in DOMAIN sro :
        sro[w].pc \in {"set", "release", "ret"} =>
            /\ sro[w].heldBefore = {}
            /\ (sro[w].pc # "ret" => ro_readers = {})

\* A set_read_only() that met a holder of the shared lock has returned.
C2_Witness ==
    \E w \in DOMAIN sro : sro[w].pc = "ret" /\ sro[w].heldAtCall # {}

\* C3: while a cmd() invocation holds the shared lock, the read-only flag is
\* the one it met when acquiring the lock and the one set by the last
\* completed set_read_only(); every execution it made, and the command it is
\* about to run, carries locking_type 4 exactly when that flag is true.
C3_StableLockingType ==
    \A t \in DOMAIN cmdst :
        cmdst[t].pc \in InBody =>
            /\ read_only = cmdst[t].roAtAcquire
            /\ read_only = lastSet
            /\ \A i \in 1..Len(cmdst[t].execs) :
                 /\ cmdst[t].execs[i].conf.locking_type = LockingType(read_only)
                 /\ cmdst[t].execs[i].conf.locking_type = "4" <=> read_only
            /\ cmdst[t].pc \in {"run", "sleep", "retry"} =>
                 cmdst[t].full_cmd.locking_type = LockingType(read_only)

\* A read-only cmd() that has made executions in the retry loop while a
\* set_read_only(False) waits for it.
C3_Witness ==
    \E t \in DOMAIN cmdst, w \in DOMAIN sro :
        /\ cmdst[t].pc = "retry"
        /\ cmdst[t].roAtAcquire
        /\ Len(cmdst[t].execs) >= 2
        /\ sro[w].pc = "excl"
        /\ ~sro[w].value

\* C4 (as stated): in read-only mode, when both filter attempts ran and the
\* runner first succeeds on its N-th execution counted after them, cmd()
\* returns rc = 0 exactly when N <= READ_ONLY_RETRIES + 1.
C4_SucceedsUpToRetriesPlusOne ==
    \A t \in DOMAIN cmdst :
        LET s == cmdst[t]
            N == PlanFails(s.plan) + 1 - 2
        IN (s.pc = "ret" /\ s.roAtAcquire /\ WiderRan(s) /\ N >= 1) =>
               (s.rc = 0 <=> N <= READ_ONLY_RETRIES + 1)

\* C4 (amended): in read-only mode, when the runner first succeeds on its
\* N-th execution counted after the filter attempts made, cmd() returns
\* rc = 0 exactly when N <= READ_ONLY_RETRIES; otherwise it returns the rc
\* and output of its last execution, the READ_ONLY_RETRIES-th of the loop.
C4_SucceedsUpToRetries ==
    \A t \in DOMAIN cmdst :
        LET s == cmdst[t]
            N == PlanFails(s.plan) + 1 - FilterAttempts(s)
        IN (s.pc = "ret" /\ s.roAtAcquire /\ N >= 1) =>
               /\ s.rc = 0 <=> N <= READ_ONLY_RETRIES
               /\ s.rc # 0 =>
                    /\ Len(s.execs) = FilterAttempts(s) + READ_ONLY_RETRIES
                    /\ s.rc = s.plan[Len(s.execs)]
                    /\ s.out = Len(s.execs)

\* Success on the last retry of the loop, after both filter attempts.
C4_Witness ==
    \E t \in DOMAIN cmdst :
        /\ cmdst[t].pc = "ret"
        /\ cmdst[t].roAtAcquire
        /\ WiderRan(cmdst[t])
        /\ cmdst[t].rc = 0
        /\ Len(cmdst[t].sleeps) = READ_ONLY_RETRIES

\* C5 (as stated): in read-only mode, when the runner fails its first f
\* executions (1 <= f <= READ_ONLY_RETRIES) and then succeeds, cmd() returns
\* rc = 0 after f+1 executions and exactly f sleeps, the k-th lasting
\* RETRY_DELAY * RETRY_BACKUP_OFF^(k-1), whatever the devices and filter.
C5_SleepsEqualFailures ==
    \A t \in DOMAIN cmdst :
        LET s == cmdst[t]
            f == PlanFails(s.plan)
        IN (s.pc = "ret" /\ s.roAtAcquire /\ f >= 1 /\ f <= READ_ONLY_RETRIES) =>
               /\ s.rc = 0
               /\ Len(s.execs) = f + 1
               /\ Len(s.sleeps) = f
               /\ \A k \in 1..Len(s.sleeps) :
                    s.sleeps[k] = RETRY_DELAY * Pow(RETRY_BACKUP_OFF, k - 1)

\* C5 (amended): in the same case cmd() returns rc = 0 after f+1 executions;
\* it sleeps once before each execution of the retry loop and not before the
\* wider-filter retry: f times when that retry is skipped, f-1 times when it
\* runs; the k-th sleep lasts RETRY_DELAY * RETRY_BACKUP_OFF^(k-1).
C5_SleepsEqualLoopExecutions ==
    \A t \in DOMAIN cmdst :
        LET s == cmdst[t]
            f == PlanFails(s.plan)
        IN (s.pc = "ret" /\ s.roAtAcquire /\ f >= 1 /\ f <= READ_ONLY_RETRIES) =>
               /\ s.rc = 0
               /\ Len(s.execs) = f + 1
               /\ Len(s.sleeps) = IF WiderRan(s) THEN f - 1 ELSE f
               /\ Len(s.sleeps) = f + 1 - FilterAttempts(s)
               /\ \A k \in 1..Len(s.sleeps) :
                    s.sleeps[k] = RETRY_DELAY * Pow(RETRY_BACKUP_OFF, k - 1)

\* Three failures, the wider retry skipped: three sleeps of 100, 200, 400 ms.
C5_Witness ==
    \E t \in DOMAIN cmdst :
        /\ cmdst[t].pc = "ret"
        /\ cmdst[t].roAtAcquire
        /\ PlanFails(cmdst[t].plan) = 3
        /\ ~WiderRan(cmdst[t])
        /\ cmdst[t].rc = 0
        /\ cmdst[t].sleeps = <<RETRY_DELAY, 2 * RETRY_DELAY, 4 * RETRY_DELAY>>

\* C6, the bounds: an invocation makes at most 2 + READ_ONLY_RETRIES
\* executions and READ_ONLY_RETRIES sleeps, in read-write mode at most two
\* executions and no sleep; it returns having made at least one execution,
\* with the result of its last execution, which is its first with rc = 0 if
\* there is one.
C6_Bounds ==
    \A t \in DOMAIN cmdst :
        LET s == cmdst[t] IN
        /\ Len(s.execs) <= 2 + READ_ONLY_RETRIES
        /\ Len(s.sleeps) <= READ_ONLY_RETRIES
        /\ (s.pc \in InBody \cup {"exit_sem", "ret"} /\ ~s.roAtAcquire) =>
               Len(s.execs) <= 2 /\ s.sleeps = <<>>
        /\ s.pc \in {"exit", "exit_sem", "ret"} =>
               /\ Len(s.execs) >= 1
               /\ s.rc = s.execs[Len(s.execs)].rc
               /\ s.out = Len(s.execs)
               /\ \A i \in 1..(Len(s.execs) - 1) : s.execs[i].rc # 0

\* C6: cmd() always terminates, within the bounds above.
C6_Terminates ==
    /\ []C6_Bounds
    /\ \A t \in {1} : (cmdst[t].pc = "sem") ~> (cmdst[t].pc = "ret")

\* An invocation that returned after 2 + READ_ONLY_RETRIES executions.
C6_Witness ==
    \E t \in DOMAIN cmdst :
        /\ cmdst[t].pc = "ret"
        /\ Len(cmdst[t].execs) = 2 + READ_ONLY_RETRIES
        /\ Len(cmdst[t].sleeps) = READ_ONLY_RETRIES

\* C7 (as stated): when cmd() with non-empty devices returns rc = 0, the
\* execution that produced the result carried a filter accepting every device
\* of devices and nothing else, the wider retry and the retry loop included.
C7_FilterIsDevices ==
    \A t \in DOMAIN cmdst :
        LET s == cmdst[t] IN
        (s.pc = "ret" /\ s.rc = 0 /\ s.devices # <<>>) =>
            AcceptSet(s.execs[s.out].conf.filter) = Clean(s.devices)

\* C7 (amended): in that case, when the wider-filter retry did not run the
\* filter accepts exactly devices and the user allowlist; when it ran, the
\* filter is the memoized global filter, which accepts the allowlist and the
\* devices of one multipath enumeration, whether devices are among them or not.
C7_FilterIsDevicesOrGlobal ==
    \A t \in DOMAIN cmdst :
        LET s == cmdst[t]
            f == s.execs[s.out].conf.filter
        IN (s.pc = "ret" /\ s.rc = 0 /\ s.devices # <<>>) =>
               IF WiderRan(s)
               THEN /\ f = filter
                    /\ \E mp \in SeqMps :
                         AcceptSet(f) = Clean(mp) \cup Clean(USER_DEV_LIST)
               ELSE AcceptSet(f) = Clean(s.devices) \cup Clean(USER_DEV_LIST)

\* Success in the wider-filter retry under a global filter rejecting one of
\* the devices asked for.
C7_Witness ==
    \E t \in DOMAIN cmdst :
        LET s == cmdst[t] IN
        /\ s.pc = "ret" /\ s.rc = 0 /\ s.devices # <<>>
        /\ s.execs[s.out].stage = "wider"
        /\ \E d \in Clean(s.devices) : ~Accepts(s.execs[s.out].conf.filter, d)

-----------------------------------------------------------------------------
(* Properties of the cache under the public operations.                     *)

MutatingOps ==
    {"createVG", "removeVG", "extendVG", "reduceVG", "createLV", "removeLVs",
     "extendLV", "reduceLV", "renameLV", "refreshLVs", "changeLVsTags",
     "changeVGTags", "resizePV", "movePV"}

ReloadOps == {"_reloadpvs", "_reloadvgs", "_reloadvgs()", "_reloadlvs", "_reloadlvs()"}

\* An entry is invalid when it is absent, Stale or Unreadable.
PvInvalid(pv) == pv \notin DOMAIN _pvs \/ is_stale(_pvs[pv])

VgInvalid(vg) == vg \notin DOMAIN _vgs \/ is_stale(_vgs[vg])

LvInvalid(vg, lv) == <<vg, lv>> \notin DOMAIN _lvs \/ is_stale(_lvs[<<vg, lv>>])

LvFresh(vg, lv) == <<vg, lv>> \in DOMAIN _lvs /\ ~is_stale(_lvs[<<vg, lv>>])

\* The entries an operation called with CVg, CPv, CLv, CNewLv affects.
AffectsPv(op) ==
    op \in {"resizePV", "movePV", "createVG", "extendVG", "reduceVG", "removeVG"}

AffectsVg(op) == op \in MutatingOps \ {"refreshLVs", "changeLVsTags", "renameLV"}

AffectedLvs(op) ==
    IF op \in {"createLV", "removeLVs", "extendLV", "reduceLV", "refreshLVs",
               "changeLVsTags"}
    THEN {CLv}
    ELSE IF op = "renameLV" THEN {CLv, CNewLv}
    ELSE IF op \in {"removeVG", "movePV"}
    THEN {k[2] : k \in {d \in DOMAIN _lvs : d[1] = CVg}}
    ELSE {}

AffectedInvalid(op) ==
    /\ AffectsPv(op) => PvInvalid(CPv)
    /\ AffectsVg(op) => VgInvalid(CVg)
    /\ \A lv \in AffectedLvs(op) : LvInvalid(CVg, lv)

\* The last operation was mutating, ran its own command and returned.
ReturnedAfterCommand ==
    last.op \in MutatingOps /\ last.outcome = "ret" /\ last.rc # -1

\* C8 as stated: when a mutating public operation that ran its command
\* returns normally, every cache entry it affects is Stale, Unreadable or
\* absent.
C8_ReturnLeavesAffectedInvalid ==
    ReturnedAfterCommand => AffectedInvalid(last.op)

\* C8, amended: when a mutating public operation other than renameLV returns
\* after its command succeeded, every cache entry it affects is Stale,
\* Unreadable or absent; renameLV leaves the old LV absent and the new LV as
\* its reload left it, never Stale; reduceLV and extendLV returning after
\* their command failed leave the LV Fresh with the size asked for.
C8_SuccessLeavesAffectedInvalid ==
    /\ (ReturnedAfterCommand /\ last.op # "renameLV" /\ last.rc = 0)
           => AffectedInvalid(last.op)
    /\ (ReturnedAfterCommand /\ last.op = "renameLV")
           => /\ <<CVg, CLv>> \notin DOMAIN _lvs
              /\ <<CVg, CNewLv>> \in DOMAIN _lvs => _lvs[<<CVg, CNewLv>>].kind # "Stale"
    /\ (ReturnedAfterCommand /\ last.rc # 0)
           => /\ last.op \in {"reduceLV", "extendLV"}
              /\ LvFresh(CVg, CLv)
              /\ last.op = "reduceLV" =>
                     \E size \in CReduceTo : _lvs[<<CVg, CLv>>].size <= size * MiB
              /\ last.op = "extendLV" =>
                     \E size \in CExtendTo : _lvs[<<CVg, CLv>>].size >= size * MiB

\* extendLV ran lvextend with success and returned: VG and LV are Stale.
C8_Witness ==
    /\ last.op = "extendLV" /\ last.outcome = "ret" /\ last.rc = 0
    /\ CVg \in DOMAIN _vgs /\ _vgs[CVg].kind = "Stale"
    /\ <<CVg, CLv>> \in DOMAIN _lvs /\ _lvs[<<CVg, CLv>>].kind = "Stale"

\* C9 as stated: when a mutating public operation raises because its LVM
\* command failed, every cache entry it affects is Stale, Unreadable or
\* absent.
C9_RaiseLeavesAffectedInvalid ==
    (last.op \in MutatingOps /\ last.outcome = "raise_cmd")
        => AffectedInvalid(last.op)

\* What a step did to the maps and flags is at most marking entries Stale or
\* Unreadable.
OnlyMarks(b, a) == ~Deleted(b, a) /\ ~FreshTouched(b, a) /\ ~FlagCleared(b, a)

\* C10 as stated: a step of a reload or of a public operation all of whose
\* commands failed only replaces entries by Stale or Unreadable markers: it
\* deletes no entry, adds or alters no Fresh record and clears no global
\* stale flag.
C10_FailureOnlyMarks ==
    [][(last'.op \in ReloadOps \cup MutatingOps /\ last'.allFailed)
           => OnlyMarks(Cache, Cache')]_vars

-----------------------------------------------------------------------------
(* Properties of the reloads.                                               *)

AnyReload ==
    {"_reloadpvs", "_reloadpvs()", "_reloadvgs", "_reloadvgs()",
     "_reloadlvs", "_reloadlvs()"}

\* The map a command reloads, out of the cache fields c.
MapOf(cm, c) ==
    IF cm.tool = "pvs" THEN c.pvs
    ELSE IF cm.tool = "vgs" THEN c.vgs
    ELSE [n \in LvNamesIn(c.lvs, CVg) |-> c.lvs[<<CVg, n>>]]

\* The scope of a reload: the names asked for, or every key the map had.
ScopeOf(cm, c) == IF cm.names # {} THEN cm.names ELSE DOMAIN MapOf(cm, c)

\* The lines of the output a reload makes records of.
KeptLines(cm) ==
    {cm.out[i] : i \in {j \in 1..Len(cm.out) :
        IF cm.tool = "pvs" THEN cm.out[j].name # UNKNOWN
        ELSE IF cm.tool = "vgs" THEN cm.out[j].pv_name # UNKNOWN
        ELSE cm.out[j].seg_start_pe = 0}}

\* C15 as stated: when the command of a reload fails, every name in the
\* scope of the reload whose entry was Stale or Unreadable before is in the
\* map as Unreadable(name) when the reload returns, for PVs, VGs and LVs.
C15_FailedReloadMarksUnreadable ==
    [][(last'.op \in AnyReload /\ call'.cmds[1].rc # 0)
       => LET cm     == call'.cmds[1]
              before == MapOf(cm, Cache)
              after  == MapOf(cm, Cache')
          IN  \A n \in ScopeOf(cm, Cache) \cap DOMAIN before :
                  is_stale(before[n])
                  => n \in DOMAIN after /\ after[n] = Unreadable(n)]_vars

\* The postcondition of a reload that returned after its command succeeded.
ReloadPost(cm, b, a) ==
    LET before == MapOf(cm, b)
        after  == MapOf(cm, a)
        named  == {row.name : row \in KeptLines(cm)}
        scope  == ScopeOf(cm, b)
    IN  /\ \A row \in KeptLines(cm) :
               /\ row.name \in DOMAIN after
               /\ ~is_stale(after[row.name])
               /\ after[row.name].name = row.name
               /\ \E row2 \in KeptLines(cm) :
                      after[row.name] =
                          IF cm.tool = "pvs" THEN PVfromlvm(row2)
                          ELSE IF cm.tool = "vgs"
                          THEN VGfromlvm(row2, after[row.name].pv_name)
                          ELSE LVfromlvm(row2)
        /\ \A n \in scope \ named : n \notin DOMAIN after
        /\ \A n \in scope \cap DOMAIN after : ~is_stale(after[n])
        /\ \A n \in DOMAIN before \ (scope \cup named) :
               n \in DOMAIN after /\ after[n] = before[n]

\* C16: after a reload of PVs, VGs or LVs whose command succeeded (rc = 0)
\* and that returned, every record made of the output is in the map as
\* Fresh, every name of the scope (the names asked for, or every key the map
\* had) that the output did not name is absent, so that no Stale or
\* Unreadable entry remains in the scope, and the entries outside the scope
\* that the output did not name are unchanged.
C16_SuccessfulReload ==
    [][(last'.op \in AnyReload /\ last'.outcome = "ret" /\ call'.cmds[1].rc = 0)
       => ReloadPost(call'.cmds[1], Cache, Cache')]_vars

\* A reload of p1 that succeeded and named it, with the entry of p2, which
\* is outside its scope, still Stale.
C16_Witness ==
    /\ last.op = "_reloadpvs" /\ last.outcome = "ret"
    /\ call.cmds[1].rc = 0 /\ call.cmds[1].out = <<PvRow("p1", 0)>>
    /\ _pvs["p1"] = PVfromlvm(PvRow("p1", 0))
    /\ "p2" \in DOMAIN _pvs /\ is_stale(_pvs["p2"])

\* C17 as stated: the global stale flag of PVs (of VGs) goes from set to
\* cleared only in an unscoped _reloadpvs (_reloadvgs) whose command
\* succeeded.
C17_FlagClearedOnlyBySuccess ==
    [][/\ (_stalepv /\ ~_stalepv')
            => (last'.op = "_reloadpvs()" /\ call'.cmds[1].rc = 0)
       /\ (_stalevg /\ ~_stalevg')
            => (last'.op = "_reloadvgs()" /\ call'.cmds[1].rc = 0)]_vars

-----------------------------------------------------------------------------
(* Properties of the lookups.                                               *)

\* C12: with one caller, the getAllPvs() that follows _invalidateAllPvs()
\* issues exactly one command, a pvs with no PV names, and the getAllPvs()
\* that follows a getAllPvs() whose reload succeeded issues no command.
C12_OneBulkReload ==
    [][/\ (last.op = "_invalidateAllPvs" /\ last'.op = "getAllPvs")
            => /\ Len(call'.cmds) = 1
               /\ call'.cmds[1].tool = "pvs"
               /\ call'.cmds[1].names = {}
       /\ (last.op = "getAllPvs" /\ last.outcome = "ret" /\ last.rc = 0
              /\ last'.op = "getAllPvs")
            => call'.cmds = <<>>]_vars

\* getAllPvs() right after _invalidateAllPvs(), its one pvs command, which
\* names no PV, having found p1.
C12_Witness ==
    /\ prev = <<"_invalidateAllPvs", -1>>
    /\ last.op = "getAllPvs" /\ last.outcome = "ret" /\ last.rc = 0
    /\ Len(call.cmds) = 1 /\ call.cmds[1].names = {}
    /\ "p1" \in DOMAIN _pvs

\* C18: with one caller, when flush() returns the PV, VG and LV maps are
\* empty, both global stale flags are set and the set of VGs with fresh LVs
\* is empty; the filter, the read-only flag and the counters of the
\* statistics are as before.
C18_Flush ==
    [][last'.op = "flush"
       => /\ _pvs' = EmptyMap /\ _vgs' = EmptyMap /\ _lvs' = EmptyMap
          /\ _stalepv' /\ _stalevg' /\ _freshlv' = {}
          /\ filter' = filter /\ filterStale' = filterStale
          /\ read_only' = read_only
          /\ _stats' = _stats]_vars

\* flush() called in read-only mode right after a getLv() that missed and
\* reloaded the LVs, the counters having counted.
C18_Witness ==
    /\ last.op = "flush" /\ prev = <<"getLv", 0>>
    /\ read_only /\ _stats.misses > 0
    /\ _lvs = EmptyMap /\ _stalepv /\ _stalevg

\* C19 as stated: getAllPvs() and getAllVgs() return only Fresh records, and
\* every entry that is Fresh in the cache when the call returns, whether the
\* reload they ran succeeded or failed.
C19_BulkLookupReturnsTheFresh ==
    [][(last'.op \in {"getAllPvs", "getAllVgs"} /\ last'.outcome = "ret")
       => LET m == IF last'.op = "getAllPvs" THEN _pvs' ELSE _vgs' IN
          /\ \A e \in call'.ret : ~is_stale(e)
          /\ \A k \in DOMAIN m : ~is_stale(m[k]) => m[k] \in call'.ret]_vars

\* C20: getLv(vg) with no LV name returns only Fresh LV records whose
\* vg_name is vg, whatever the cache held and whether the reload it ran
\* succeeded or failed: no Stale or Unreadable entry and no LV of another VG.
C20_GetLvsOfVg ==
    [][\A vg \in LvVgs :
          (last'.op = GetLvOp(vg) /\ last'.outcome = "ret")
          => \A e \in call'.ret :
                 /\ ~is_stale(e)
                 /\ e.kind = "LV"
                 /\ e.vg_name = vg]_vars

\* getLv("v1") answered from the cache while the cache holds a Stale entry
\* and a Fresh LV of v2.
C20_Witness ==
    /\ last.op = GetLvOp("v1") /\ last.outcome = "ret"
    /\ call.cmds = <<>> /\ call.ret # {}
    /\ <<"v2", "l1">> \in DOMAIN _lvs /\ is_stale(_lvs[<<"v2", "l1">>])
    /\ <<"v2", "l2">> \in DOMAIN _lvs /\ ~is_stale(_lvs[<<"v2", "l2">>])

-----------------------------------------------------------------------------
(* Properties of extendLV.                                                  *)

\* The extents of a VG as extendLV saw them: those of the cached VG when it
\* is Fresh, else those the first vgs command printed.
SeenExtentSizes(c, cmds) ==
    IF ~Miss(c.vgs, CVg) THEN {c.vgs[CVg].extent_size}
    ELSE IF cmds # <<>> /\ cmds[1].tool = "vgs"
    THEN {cmds[1].out[i].extent_size : i \in 1..Len(cmds[1].out)}
    ELSE {}

\* The size of the LV as extendLV saw it: that of the cached LV when it is
\* Fresh, else the size the lvs command run before lvextend printed.
SeenLvSizes(c, cmds) ==
    IF ~Miss(c.lvs, <<CVg, CLv>>) THEN {c.lvs[<<CVg, CLv>>].size}
    ELSE LET firstLvs ==
                 {i \in 1..Len(cmds) :
                      /\ cmds[i].tool = "lvs"
                      /\ \A j \in 1..(i - 1) : cmds[j].tool = "vgs"}
         IN  UNION {{cmds[i].out[k].size : k \in 1..Len(cmds[i].out)} :
                        i \in firstLvs}

\* The least number of extents of extent_size bytes that hold size_mb MiB.
ExtentsFor(size_mb, extent_size) ==
    CHOOSE k \in 0..(size_mb + 1) :
        /\ k * extent_size >= size_mb * MiB
        /\ k = 0 \/ (k - 1) * extent_size < size_mb * MiB

\* C14: extendLV(vg, lv, size_mb) is a no-op when the LV has at least the
\* number of extents that hold size_mb MiB (400 MiB asked of an LV of
\* 512 MiB with extents of 128 MiB): it returns normally and runs no
\* lvextend, and when the cached VG and LV are Fresh it runs no command and
\* leaves the cache unchanged.
C14_ExtendLVNoOp ==
    [][\A size \in ExtSizes :
       \A e \in SeenExtentSizes(Cache, call'.cmds) :
       \A bytes \in SeenLvSizes(Cache, call'.cmds) :
          (last'.op = ExtendOp(size) /\ bytes \div e >= ExtentsFor(size, e))
          => /\ last'.outcome = "ret"
             /\ last'.rc = -1
             /\ \A i \in 1..Len(call'.cmds) : call'.cmds[i].tool # "lvextend"
             /\ (~Miss(_vgs, CVg) /\ ~Miss(_lvs, <<CVg, CLv>>))
                    => (call'.cmds = <<>> /\ Cache' = Cache)]_vars

\* extendLV asked for 400 MiB has returned having run no command, the
\* cached VG having extents of 128 MiB and the cached LV 512 MiB.
C14_Witness ==
    /\ last.op = ExtendOp(400) /\ last.outcome = "ret" /\ last.rc = -1
    /\ call.cmds = <<>>
    /\ ~Miss(_vgs, CVg) /\ _vgs[CVg].extent_size = 128 * MiB
    /\ ~Miss(_lvs, <<CVg, CLv>>) /\ _lvs[<<CVg, CLv>>].size = 512 * MiB

-----------------------------------------------------------------------------
(* Properties of activation.                                                *)

\* C13: after activateLVs(vg, S) followed by deactivateLVs(vg, S), both
\* having returned normally, no cache entry of an LV of S is a Fresh record
\* with active true.
C13_NoActiveAfterDeactivate ==
    [][(/\ last.op = "activateLVs" /\ last.outcome = "ret"
        /\ last'.op = "deactivateLVs" /\ last'.outcome = "ret")
       => \A lv \in ActLvs :
              LET key == <<CVg, lv>> IN
              ~(/\ key \in DOMAIN _lvs'
                /\ ~is_stale(_lvs'[key])
                /\ _lvs'[key].active)]_vars

\* deactivateLVs has run lvchange and returned, right after an activateLVs
\* that had nothing to do; no LV has its link and both entries are Stale.
C13_Witness ==
    /\ last.op = "deactivateLVs" /\ last.outcome = "ret" /\ last.rc = 0
    /\ prev = <<"activateLVs", -1>>
    /\ host.active = {}
    /\ \A lv \in ActLvs : <<CVg, lv>> \in DOMAIN _lvs /\ _lvs[<<CVg, lv>>].kind = "Stale"

-----------------------------------------------------------------------------
(* Properties of the cache under concurrent callers.                        *)

\* C11 as stated: once the invalidation of a change has completed in one
\* thread, no lookup in any thread returns as a cache hit a Fresh record
\* made of output that LVM produced before the change; a reload whose
\* command ran before the change does not store its result as Fresh after
\* the invalidation.
C11_NoOldRecordAfterInvalidation ==
    [][(last'.op = "getLv" /\ call'.cmds = <<>>)
       => \A e \in call'.ret :
              ~is_stale(e) => e.size >= (1 + rthreads[Writer].done) * MiB]_vars

-----------------------------------------------------------------------------
(* Properties of the statistics.                                            *)

\* The lookups the threads counted since the last clear().
CountedFive == counted.five

CountedOther == counted.other

\* A call of one of getPv, getVg, getLv, getAllPvs, getAllVgs by t returns.
FiveReturns(t) ==
    /\ rthreads[t].pc = "finish"
    /\ rthreads[t].op \in FiveLookups
    /\ rthreads'[t].pc = "idle"

\* C22 as stated: hits + misses is the number of calls of getPv, getVg,
\* getLv, getAllPvs and getAllVgs counted since the last clear().
C22_CountsTheFiveLookups == _stats.hits + _stats.misses = CountedFive

\* C22 as the code has it: a returning call of getPv, getVg, getLv, getAllPvs
\* or getAllVgs has incremented exactly one counter by one, misses iff it
\* issued a reload command and hits iff it issued none; and under any
\* interleaving hits + misses is the number of these calls counted since the
\* last clear(), plus one for each getVgs and for each getPvs counted, which
\* count for themselves (getPvs after the getVg it calls has counted).
C22_CountsEveryLookup ==
    /\ [](_stats.hits + _stats.misses = CountedFive + CountedOther)
    /\ [][\A t \in StatThreads :
             FiveReturns(t)
             => IF call'.cmds # <<>>
                THEN rthreads[t].incs = <<0, 1>>
                ELSE rthreads[t].incs = <<1, 0>>]_vars

\* Both threads have counted, one a hit and the other a miss made by getVgs,
\* and a third count is under way while CacheStats._lock is held.
C22_Witness ==
    /\ _stats.hits >= 1 /\ _stats.misses >= 1
    /\ CountedOther >= 1 /\ CountedFive >= 1
    /\ rthreads["t1"].pc = "finish"
    /\ rthreads["t2"].pc = "write"

-----------------------------------------------------------------------------
(* Properties of the locks.                                                 *)

\* Thread t holds a permit of the command semaphore.
HoldsPermit(t) == cmdst[t].pc \in HasPermit

\* C23: a thread that holds the cache mutex self._lock is outside cmd(): it
\* is not executing a command, not sleeping in the retry loop and not
\* waiting for or holding the semaphore, the read-only lock or the filter
\* lock; it is reading the devices of a VG, storing the output of a reload
\* or marking entries.
C23_LockOnlyAroundMemory ==
    \A t \in LkThreads :
        _lock = {t}
        => /\ rthreads[t].pc \in {"devs_in", "store_in", "inval_in"}
           /\ cmdst[t].pc = "idle"
           /\ t \notin ro_readers
           /\ filterLock # {t}

\* Thread 1 stores the output of its reload under self._lock while thread 2
\* sleeps in the retry loop of its command.
C23_Witness ==
    /\ _lock = {1} /\ rthreads[1].pc = "store_in"
    /\ cmdst[2].pc = "sleep"

\* C24 as stated: a thread holding the filter lock holds no semaphore permit,
\* no side of the read-only lock and no cache mutex.
C24_FilterLockTakenAlone ==
    \A t \in LkThreads :
        filterLock = {t}
        => /\ ~HoldsPermit(t)
           /\ t \notin ro_readers
           /\ ro_writer # {t}
           /\ _lock # {t}

\* C24 as the code has it: the filter lock is taken inside cmd() only, by a
\* thread that holds a semaphore permit and the shared side of the read-only
\* lock; that thread never holds the cache mutex or the exclusive side, and
\* it takes no lock while it holds the filter lock.
C24_FilterLockInsideCmd ==
    \A t \in LkThreads :
        filterLock = {t}
        => /\ cmdst[t].pc \in {"gcf_build", "gcf_clear"}
           /\ HoldsPermit(t)
           /\ t \in ro_readers
           /\ ro_writer = {}
           /\ _lock # {t}

\* Thread 1 rebuilds the filter under the filter lock while thread 2 holds
\* the cache mutex.
C24_Witness ==
    /\ filterLock = {1} /\ cmdst[1].pc = "gcf_build"
    /\ _lock = {2}

\* The threads that hold what thread t of LkThreads waits for.
LkWaitsFor(t) ==
    IF rthreads[t].pc \in {"devs", "inval"} THEN _lock
    ELSE IF ~InCmd(t) THEN {}
    ELSE IF cmdst[t].pc = "ret" THEN _lock
    ELSE IF cmdst[t].pc = "sem" /\ ~SemAvailable
    THEN {u \in LkThreads : HoldsPermit(u)}
    ELSE IF cmdst[t].pc = "shared" /\ ~CmdLockFree THEN ro_writer
    ELSE IF cmdst[t].pc = "cfg" /\ ~UseDevices(cmdst[t]) THEN filterLock
    ELSE {}

\* The threads that hold what thread w of LkSro waits for: every holder has
\* to release the read-only lock.
SroWaitsFor(w) ==
    IF sro[w].pc = "excl" /\ ~SroLockFree THEN ro_readers \cup ro_writer ELSE {}

\* The threads of D wait for one another: each waits for a lock that threads
\* of D alone hold, or for the exclusive side while a thread of D holds the
\* read-only lock.
Deadlocked(D) ==
    /\ \A t \in D \cap LkThreads : LkWaitsFor(t) # {} /\ LkWaitsFor(t) \subseteq D
    /\ \A w \in D \cap LkSro : SroWaitsFor(w) \cap D # {}

-----------------------------------------------------------------------------
(* Properties of the memoized filter.                                       *)

\* Thread t is at _addExtraCfg about to call _getCachedFilter().
AsksCachedFilter(t) == cmdst[t].pc = "cfg" /\ ~UseDevices(cmdst[t])

\* C26: the global filter is rebuilt from the multipath enumeration only when
\* its stale flag is set.  _getCachedFilter() with the flag clear returns the
\* memoized filter and enumerates nothing; with the flag set it enumerates
\* once under the filter lock, stores the result and clears the flag; the
\* flag starts set, so a clear flag means that the filter was built.
C26_FilterRebuiltOnlyWhenStale ==
    /\ [](\A t \in DOMAIN cmdst :
             cmdst[t].pc = "gcf_build" => filterStale /\ filterLock = {t})
    /\ [](~filterStale => filter.kind = "filter")
    /\ [][\A t \in DOMAIN cmdst :
             /\ filter' # filter => cmdst[t].pc = "gcf_build"
             /\ AsksCachedFilter(t) /\ ~filterStale
                => /\ filter' = filter /\ filterStale' = filterStale
                   /\ cmdst'[t].pc # "gcf_build"
                   /\ cmdst'[t].pc = "run" => cmdst'[t].full_cmd.filter = filter
             /\ AsksCachedFilter(t) /\ filterStale
                => cmdst'[t].pc = "gcf_build" /\ filter' = filter
             /\ cmdst[t].pc = "gcf_build" => cmdst'[t].pc = "gcf_clear"
             /\ cmdst[t].pc = "gcf_clear"
                => /\ filter' = filter /\ ~filterStale'
                   /\ cmdst'[t].pc = "run" => cmdst'[t].full_cmd.filter = filter]_vars

\* A call of cmd() without devices, as the first attempt, is about to run a
\* command rendered with the memoized filter, which accepts two devices; the
\* flag is clear.
C26_Witness ==
    /\ cmdst[1].pc = "run" /\ cmdst[1].stage = 1 /\ cmdst[1].devices = <<>>
    /\ cmdst[1].execs = <<>>
    /\ ~filterStale
    /\ cmdst[1].full_cmd.filter = filter
    /\ Len(filter.accept) >= 2

-----------------------------------------------------------------------------
(* Properties of the accessors.                                             *)

\* C27 as stated: getPV and getVG return a Fresh record of the name or raise
\* their missing-object error.
C27_FreshOrMissing ==
    [][last'.op \in {"getPV", "getVG"}
       => \/ last'.outcome = "raise_missing"
          \/ /\ last'.outcome = "ret"
             /\ \A e \in call'.ret : ~is_stale(e) /\ e # NoEntry]_vars

\* C27 as the code has it: getVG returns a Fresh VG of the name, or raises
\* VolumeGroupDoesNotExist, or lets InvalidOutputLine through.  getPV does the
\* same with InaccessiblePhysDev, and never returns None or a Stale entry, but
\* it returns the Unreadable entry when the entry was Stale or Unreadable and
\* the pvs command of its reload failed.
C27_FreshMissingOrUnreadable ==
    [][/\ last'.op = "getVG"
          => \/ last'.outcome \in {"raise_missing", "raise_parse"}
             \/ /\ last'.outcome = "ret"
                /\ \A e \in call'.ret : e.kind = "VG" /\ e.name = CVg
       /\ last'.op = "getPV"
          => \/ last'.outcome \in {"raise_missing", "raise_parse"}
             \/ /\ last'.outcome = "ret"
                /\ \A e \in call'.ret :
                      IF e.kind = "PV" THEN e.name = CPv
                      ELSE /\ e = Unreadable(CPv)
                           /\ last'.rc # 0
                           /\ IF CPv \in DOMAIN _pvs THEN is_stale(_pvs[CPv]) ELSE FALSE
       /\ last'.op \in {"getPV", "getVG"} /\ last'.outcome = "ret"
          => Cardinality(call'.ret) = 1]_vars

\* getPV returned the Unreadable entry of the PV after its pvs command failed.
C27_Witness ==
    /\ last.op = "getPV" /\ last.outcome = "ret" /\ last.rc # 0
    /\ call.ret = {Unreadable(CPv)}

-----------------------------------------------------------------------------
(* Properties of the operations on a VG.                                    *)

\* C28: removeVG runs the deactivation command and then vgremove, whether the
\* deactivation failed or not; afterwards every PV that was cached Fresh with
\* the VG as its vg_name is Stale; if vgremove succeeded the VG has no entry
\* in the VG map and removeVG returns, if it failed the VG is present as Stale
\* and VolumeGroupRemoveError is raised.
C28_RemoveVGRunsBothAndInvalidates ==
    [][last'.op = "removeVG"
       => /\ Len(call'.cmds) = 2
          /\ call'.cmds[1].tool = "vgchange"
          /\ call'.cmds[2].tool = "vgremove"
          /\ \A p \in DOMAIN _pvs :
                IF is_stale(_pvs[p]) THEN TRUE
                ELSE IF _pvs[p].vg_name # CVg THEN TRUE
                ELSE IF p \in DOMAIN _pvs' THEN _pvs'[p] = Stale(p) ELSE FALSE
          /\ IF call'.cmds[2].rc = 0
             THEN CVg \notin DOMAIN _vgs' /\ last'.outcome = "ret"
             ELSE /\ last'.outcome = "raise_cmd"
                  /\ IF CVg \in DOMAIN _vgs' THEN _vgs'[CVg] = Stale(CVg) ELSE FALSE]_vars

\* removeVG removed the VG after its deactivation failed, and made its PV Stale.
C28_Witness ==
    /\ last.op = "removeVG" /\ last.outcome = "ret"
    /\ Len(call.cmds) = 2 /\ call.cmds[1].rc # 0 /\ call.cmds[2].rc = 0
    /\ CVg \notin DOMAIN _vgs
    /\ IF CPv \in DOMAIN _pvs THEN _pvs[CPv] = Stale(CPv) ELSE FALSE


\* The pvs command r of movePV printed one well-formed line for the PV, with
\* alloc extents allocated.
Printed(r, alloc) == r.rc = 0 /\ r.out = <<PvRow(CPv, alloc)>>

\* movePV ran pvmove, and left the PV and the VG Stale.
Moved(cmds) ==
    /\ Len(cmds) = 2
    /\ cmds[2].tool = "pvmove"
    /\ last'.outcome = (IF cmds[2].rc = 0 THEN "ret" ELSE "raise_cmd")
    /\ IF CPv \in DOMAIN _pvs' THEN _pvs'[CPv] = Stale(CPv) ELSE FALSE
    /\ IF CVg \in DOMAIN _vgs' THEN _vgs'[CVg] = Stale(CVg) ELSE FALSE
    /\ DOMAIN _lvs' = DOMAIN _lvs

\* C29 as stated: movePV reloads the PV first; it returns without pvmove when
\* the reloaded PV has no extent allocated, and otherwise runs pvmove and
\* leaves the PV, every cached LV of the VG and the VG Stale.
C29_MovePVSkipsOrMoves ==
    [][last'.op = "movePV"
       => /\ Len(call'.cmds) >= 1
          /\ call'.cmds[1].tool = "pvs"
          /\ IF Printed(call'.cmds[1], 0)
             THEN Len(call'.cmds) = 1 /\ last'.outcome = "ret"
             ELSE /\ Moved(call'.cmds)
                  /\ \A k \in DOMAIN _lvs' : k[1] = CVg => _lvs'[k] = Stale(k[2])]_vars

\* C29 as the code has it: movePV always runs pvs for the PV first, whatever
\* the cache held.  If the line printed has pe_alloc_count 0 it returns
\* without pvmove; if it has extents allocated it runs pvmove and, whether
\* pvmove succeeds or fails, the PV and the VG are Stale and every LV of the
\* VG that was cached Fresh is Stale, the other LV entries staying Stale or
\* Unreadable as they were.  If the reload gave no usable PV (the command
\* failed, printed nothing, or printed a malformed line) movePV raises without
\* running pvmove.
C29_MovePVReloadsThenSkipsMovesOrRaises ==
    [][last'.op = "movePV"
       => /\ Len(call'.cmds) >= 1
          /\ call'.cmds[1].tool = "pvs"
          /\ call'.cmds[1].names = {CPv}
          /\ IF Printed(call'.cmds[1], 0)
             THEN Len(call'.cmds) = 1 /\ last'.outcome = "ret"
             ELSE IF Printed(call'.cmds[1], 1)
             THEN /\ Moved(call'.cmds)
                  /\ \A k \in DOMAIN _lvs :
                        k[1] = CVg
                        => _lvs'[k] = (IF is_stale(_lvs[k]) THEN _lvs[k] ELSE Stale(k[2]))
             ELSE /\ Len(call'.cmds) = 1
                  /\ last'.outcome \in {"raise_pre", "raise_parse"}
                  /\ _vgs' = _vgs /\ _lvs' = _lvs]_vars

\* pvmove failed after the reload showed allocated extents, and the PV, the
\* VG and the LV are Stale.
C29_Witness ==
    /\ last.op = "movePV" /\ last.outcome = "raise_cmd"
    /\ Len(call.cmds) = 2 /\ call.cmds[2].tool = "pvmove" /\ call.cmds[2].rc # 0
    /\ IF CPv \in DOMAIN _pvs THEN _pvs[CPv] = Stale(CPv) ELSE FALSE
    /\ IF CVg \in DOMAIN _vgs THEN _vgs[CVg] = Stale(CVg) ELSE FALSE
    /\ IF <<CVg, CLv>> \in DOMAIN _lvs THEN _lvs[<<CVg, CLv>>] = Stale(CLv) ELSE FALSE

-----------------------------------------------------------------------------
(* Properties of the tag operations.                                        *)

TagOps == {"changeLVsTags", "changeVGTags"}

\* The target of a tag operation is Stale in the cache after the step.
TargetInvalidated(op) ==
    IF op = "changeVGTags"
    THEN IF CVg \in DOMAIN _vgs' THEN _vgs'[CVg] = Stale(CVg) ELSE FALSE
    ELSE IF <<CVg, CLv>> \in DOMAIN _lvs'
         THEN _lvs'[<<CVg, CLv>>] = Stale(CLv) ELSE FALSE

\* C30 as stated: a tag operation whose addTags and delTags share a tag raises
\* before any command and leaves the cache unchanged; one whose tag sets are
\* disjoint runs its command once and invalidates its target, whether the
\* command succeeds or fails.
C30_TagsRaiseEarlyOrInvalidate ==
    /\ [](\A tags \in OpTags, rc \in CRcs :
             /\ (changeLVsTags(Cache, CVg, {CLv}, tags[1], tags[2], rc).outcome = "raise_pre")
                    = (tags[1] \cap tags[2] # {})
             /\ (changeVGTags(Cache, CVg, tags[1], tags[2], rc).outcome = "raise_pre")
                    = (tags[1] \cap tags[2] # {}))
    /\ [][last'.op \in TagOps
          => IF last'.outcome = "raise_pre"
             THEN call'.cmds = <<>> /\ Cache' = Cache
             ELSE /\ Len(call'.cmds) = 1
                  /\ call'.cmds[1].tool
                         = (IF last'.op = "changeVGTags" THEN "vgchange" ELSE "lvchange")
                  /\ last'.outcome = (IF call'.cmds[1].rc = 0 THEN "ret" ELSE "raise_cmd")
                  /\ TargetInvalidated(last'.op)]_vars

-----------------------------------------------------------------------------
(* Properties of bootstrap.                                                 *)

\* The names of the LVs that a call of deactivateUnusedLVs must deactivate,
\* by the records getLv returned to it.
MustDeactivate(seen) ==
    {n \in BootLvs \ (skiplvs \cup prepared) :
        \E lv \in seen : lv.name = n /\ lv.active /\ ~lv.opened}

\* The lvchange commands among cmds.
Lvchanges(cmds) == {i \in 1..Len(cmds) : cmds[i].tool = "lvchange"}

\* C31: the LVs handed to lvchange --available n are exactly the LVs of the
\* VG that are active, not opened, not in skiplvs and not prepared images;
\* when there is none no lvchange is run; when the deactivation fails the
\* error is caught, and after the call, failed or not, the entries of exactly
\* those LVs are Stale.
C31_DeactivatesExactlyTheUnused ==
    [][last'.op = "deactivateUnusedLVs" /\ last'.outcome # "raise_parse"
       => LET want == MustDeactivate(call'.ret)
              runs == Lvchanges(call'.cmds)
          IN  /\ last'.outcome = "ret"
              /\ IF want = {}
                 THEN runs = {}
                 ELSE /\ runs = {Len(call'.cmds)}
                      /\ call'.cmds[Len(call'.cmds)].names = want
              /\ want = {k[2] : k \in {x \in DOMAIN _lvs' :
                                          x[1] = CVg /\ _lvs'[x] = Stale(x[2])}}
              /\ \A lv \in call'.ret : lv.vg_name = CVg /\ ~is_stale(lv)]_vars

\* The deactivation of l1 failed, l2 and l3 were active and left alone, and
\* l1 is Stale while l2 and l3 are Fresh.
C31_Witness ==
    /\ last.op = "deactivateUnusedLVs" /\ last.outcome = "ret" /\ last.rc # 0
    /\ Len(call.cmds) = 2 /\ call.cmds[2].names = {"l1"}
    /\ \A n \in BootLvs : \E lv \in call.ret : lv.name = n /\ lv.active
    /\ _lvs[<<CVg, "l1">>] = Stale("l1")
    /\ ~is_stale(_lvs[<<CVg, "l2">>]) /\ ~is_stale(_lvs[<<CVg, "l3">>])

-----------------------------------------------------------------------------
(* Properties of createVG.                                                  *)

CreateSteps == <<"pvcreate", "pvchange", "vgcreate">>

\* C32: createVG runs pvcreate on all the devices, pvchange on the first
\* device only and vgcreate, in this order, and no step after one that
\* failed; a failed block-size check runs no command and leaves the cache as
\* it is; the PVs are Stale once pvcreate has run, and the VG too when
\* vgcreate succeeded.
C32_CreateVGStepsInOrder ==
    /\ [](\A pvs \in CreateDevs, rc2 \in CRcs, rc3 \in CRcs :
             LET cmds == createVGCmds(CVg, pvs, TRUE, 0, rc2, rc3) IN
             /\ cmds[1].names = SeqToSet(pvs)
             /\ cmds[2].names = {pvs[1]})
    /\ [][last'.op = "createVG"
          => LET cmds == call'.cmds IN
             /\ Len(cmds) <= 3
             /\ \A i \in 1..Len(cmds) : cmds[i].tool = CreateSteps[i]
             /\ \A i \in 1..(Len(cmds) - 1) : cmds[i].rc = 0
             /\ IF cmds = <<>>
                THEN last'.outcome = "raise_env" /\ Cache' = Cache
                ELSE /\ \A p \in cmds[1].names :
                           IF p \in DOMAIN _pvs' THEN _pvs'[p] = Stale(p) ELSE FALSE
                     /\ Cardinality(cmds[1].names) >= 1
                     /\ IF Len(cmds) = 3 /\ cmds[Len(cmds)].rc = 0
                        THEN /\ last'.outcome = "ret"
                             /\ IF CVg \in DOMAIN _vgs'
                                THEN _vgs'[CVg] = Stale(CVg) ELSE FALSE
                        ELSE /\ last'.outcome = "raise_cmd"
                             /\ cmds[Len(cmds)].rc # 0
                             /\ _vgs' = _vgs]_vars

\* pvchange failed after pvcreate of two devices that were cached Fresh, and
\* both are Stale while the VG is still Fresh.
C32_Witness ==
    /\ last.op = "createVG" /\ last.outcome = "raise_cmd"
    /\ Len(call.cmds) = 2 /\ call.cmds[1].names = {"p1", "p2"}
    /\ call.cmds[2].names = {"p2"} /\ call.cmds[2].rc # 0
    /\ _pvs["p1"] = Stale("p1") /\ _pvs["p2"] = Stale("p2")
    /\ IF CVg \in DOMAIN _vgs THEN ~is_stale(_vgs[CVg]) ELSE FALSE

-----------------------------------------------------------------------------
(* Properties of a failed lvextend.                                         *)

\* The positions of a failed lvextend among cmds.
FailedExtend(cmds) == {i \in 1..Len(cmds) : cmds[i].tool = "lvextend" /\ cmds[i].rc # 0}

\* The command at position i of cmds printed a record.
Gave(cmds, i, tool) ==
    IF Len(cmds) < i THEN FALSE
    ELSE cmds[i].tool = tool /\ cmds[i].rc = 0 /\ cmds[i].out # <<>>

-----------------------------------------------------------------------------
(* Properties of the filter builder.                                        *)

\* The patterns a filter lists.
Listed(f) == {f.accept[i] : i \in 1..Len(f.accept)}

\* A filter lists its patterns in strictly ascending order, then rejects all.
WellFormed(f) ==
    /\ f.reject_all
    /\ \A i \in 1..Len(f.accept), j \in 1..Len(f.accept) :
          i < j => f.accept[i] < f.accept[j]

\* The same filter comes of every list of the same names.
OrderFree(devices, f) ==
    \A other \in FilterInputs :
        SeqToSet(other) = SeqToSet(devices) => _buildFilter(other) = f

\* C34 as stated: the filter lists exactly the non-empty names of the union
\* of the devices and the allowlist, sorted, whatever their order and
\* repetition in the input, and only rejects when the union is empty.
C34_ListsTheNonEmptyNames ==
    filter # NoFilter
    => LET names == (SeqToSet(cmdst[1].devices) \cup SeqToSet(USER_DEV_LIST)) \ {0} IN
       /\ WellFormed(filter)
       /\ OrderFree(cmdst[1].devices, filter)
       /\ Listed(filter) = {Escape(d) : d \in names}

\* C34 as the code has it: the names are first stripped of surrounding
\* whitespace; the filter lists exactly the names of the union of the devices
\* and the allowlist that are not empty once stripped, each once, \x escaped,
\* in sorted order of the escaped text, followed by the reject-all pattern;
\* it is the same for every order and repetition of the input, and is the
\* reject-all filter when no name is left.
C34_ListsTheStrippedNames ==
    filter # NoFilter
    => LET names == {Strip(d) : d \in SeqToSet(cmdst[1].devices)
                                        \cup SeqToSet(USER_DEV_LIST)} \ {0}
       IN
       /\ WellFormed(filter)
       /\ OrderFree(cmdst[1].devices, filter)
       /\ Listed(filter) = {Escape(d) : d \in names}
       /\ Len(filter.accept) = Cardinality(names)
       /\ names = {} => filter.accept = <<>>

\* The filter built from a list that repeats a name, writes it once with
\* whitespace, and gives the name with \x before the name it sorts after.
C34_Witness ==
    /\ cmdst[1].devices = <<6, -1, 1>>
    /\ USER_DEV_LIST = <<-1, 5>>
    /\ filter # NoFilter
    /\ filter.accept = <<1, 4, 5>>


-----------------------------------------------------------------------------
(* Properties of the parsing of the outputs.                                *)

\* The lines of the output of a command.
Lines(cm) == {cm.out[i] : i \in 1..Len(cm.out)}

\* C35: a line of pvs whose name is [unknown] makes no cache entry and
\* raises nothing: when _reloadpvs has read the output of a command that
\* succeeded, all of whose lines have the right number of fields, it
\* returns, the PV map has no key [unknown], every other line of the output
\* is in the map as a Fresh record made of a line of that name, and a name
\* asked for that no line has other than as [unknown] is absent from the map.
C35_UnknownRowIsSkipped ==
    [][(PrIn("pvs") /\ call'.cmds[1].rc = 0
            /\ \A row \in Lines(call'.cmds[1]) : row.len = PV_FIELDS_LEN)
       => LET cm == call'.cmds[1] IN
          /\ last'.outcome = "ret"
          /\ UNKNOWN \notin DOMAIN _pvs'
          /\ \A row \in Lines(cm) :
                 row.name # UNKNOWN
                 => /\ row.name \in DOMAIN _pvs'
                    /\ \E row2 \in Lines(cm) :
                           row2.name = row.name /\ _pvs'[row.name] = PVfromlvm(row2)
          /\ \A n \in cm.names :
                 (\A row \in Lines(cm) : row.name # n) => n \notin DOMAIN _pvs']_vars

\* A reload of p1 has returned after reading an output whose only line is of
\* a device LVM cannot name: p1 is absent, and p2, stored before, is there.
C35_Witness ==
    /\ last.op = "_reloadpvs" /\ last.outcome = "ret"
    /\ call.cmds[1].names = {"p1"}
    /\ call.cmds[1].out = <<PvRow(UNKNOWN, 0)>>
    /\ DOMAIN _pvs = {"p2"}
    /\ rthreads[PrThread].pc = "idle"


\* The entries of the map a command reloads that are in the scope sc.
InScope(cm, c, sc) == {n \in DOMAIN MapOf(cm, c) : n \in sc}

\* C36: a reload of PVs or of LVs whose command failed changes only entries
\* that were Stale or Unreadable: the maps have the keys they had, every
\* entry is what it was except those in the scope of the reload that were
\* Stale or Unreadable, which are Unreadable, and the fresh-LV set and the
\* global stale flags are what they were.
C36_FailedReloadKeepsFresh ==
    [][((PrIn("pvs") \/ PrIn("lvs")) /\ call'.cmds[1].rc # 0)
       => LET cm == call'.cmds[1]
              sc == ScopeOf(cm, Cache)
          IN
          /\ last'.outcome = "ret"
          /\ DOMAIN _pvs' = DOMAIN _pvs /\ DOMAIN _lvs' = DOMAIN _lvs
          /\ _vgs' = _vgs
          /\ IF cm.tool = "pvs" THEN _lvs' = _lvs ELSE _pvs' = _pvs
          /\ \A n \in DOMAIN MapOf(cm, Cache) :
                 MapOf(cm, Cache')[n] =
                     IF n \in sc /\ is_stale(MapOf(cm, Cache)[n])
                     THEN Unreadable(n) ELSE MapOf(cm, Cache)[n]
          /\ _freshlv' = _freshlv
          /\ _stalepv' = _stalepv /\ _stalevg' = _stalevg]_vars

\* A reload of every LV of the VG has failed with l1 Unreadable and l2, which
\* was read before, still a Fresh record.
C36_Witness ==
    /\ last.op = "_reloadlvs()" /\ last.outcome = "ret" /\ last.rc # 0
    /\ DOMAIN _lvs = {<<CVg, "l1">>, <<CVg, "l2">>}
    /\ _lvs[<<CVg, "l1">>] = Unreadable("l1")
    /\ _lvs[<<CVg, "l2">>] = LVfromlvm(LvRow("l2", 1))
    /\ CVg \in _freshlv


\* C40: when a reload of PVs, VGs or LVs raises InvalidOutputLine, its block
\* has ended and self._lock is free, so that no later cache operation waits
\* for it; every key the maps had is still there, no global stale flag that
\* was set is cleared and the fresh-LV set has gained no VG; and after a
\* reload of VGs every VG entry is what it was or Unreadable, none being a
\* record made of the output.
C40_InvalidOutputLineLeavesCache ==
    [][(rthreads[PrThread].pc = "store_in" /\ last'.outcome = "raise_parse")
       => /\ \E row \in Lines(call'.cmds[1]) :
                 row.len # IF call'.cmds[1].tool = "pvs" THEN PV_FIELDS_LEN
                           ELSE IF call'.cmds[1].tool = "vgs" THEN VG_FIELDS_LEN
                           ELSE LV_FIELDS_LEN
          /\ _lock' = {} /\ rthreads'[PrThread].pc = "idle"
          /\ DOMAIN _pvs \subseteq DOMAIN _pvs'
          /\ DOMAIN _vgs \subseteq DOMAIN _vgs'
          /\ DOMAIN _lvs \subseteq DOMAIN _lvs'
          /\ (_stalepv => _stalepv') /\ (_stalevg => _stalevg')
          /\ _freshlv' \subseteq _freshlv
          /\ PrIn("vgs")
             => /\ DOMAIN _vgs' = DOMAIN _vgs
                /\ \A v \in DOMAIN _vgs :
                       _vgs'[v] = _vgs[v] \/ _vgs'[v] = Unreadable(v)]_vars

\* A reload of every VG has raised InvalidOutputLine on the second line of
\* the output of a command that failed: the first line made no record, the
\* entry of the VG is Unreadable and self._lock is free.
C40_Witness ==
    /\ last.op = "_reloadvgs()" /\ last.outcome = "raise_parse"
    /\ call.cmds[1].rc # 0
    /\ call.cmds[1].out = <<VgRow("p1", 0), Short(VgRow("p2", 1))>>
    /\ DOMAIN _vgs = {CVg} /\ _vgs[CVg] = Unreadable(CVg)
    /\ _stalevg
    /\ _lock = {} /\ rthreads[PrThread].pc = "idle"


-----------------------------------------------------------------------------
(* Properties of the invalidation of the LVs of a VG.                       *)

\* C37 as stated: with LV caching enabled, the getLv(vg) that follows
\* _invalidatelvs(vg) runs lvs for the VG instead of answering from the
\* cache, whatever the cache holds, a VG in the fresh-LV set with no cached
\* LV included.
C37_InvalidatedVgIsReloaded ==
    [][\A vg \in LvVgs :
          (_cache_lvs /\ last.op = InvLvOp(vg) /\ last'.op = GetLvOp(vg))
          => Len(call'.cmds) = 1 /\ call'.cmds[1].tool = "lvs"]_vars

\* What the code does: the getLv(vg) that follows _invalidatelvs(vg) runs lvs
\* unless the VG is in the fresh-LV set and has no cached LV; then it runs no
\* command and returns no LV.
C37_ReloadedUnlessEmptyAndFresh ==
    [][\A vg \in LvVgs :
          (_cache_lvs /\ last.op = InvLvOp(vg) /\ last'.op = GetLvOp(vg))
          => IF vg \in _freshlv /\ LvNamesIn(_lvs, vg) = {}
             THEN call'.cmds = <<>> /\ call'.ret = {} /\ Cache' = Cache
             ELSE Len(call'.cmds) = 1 /\ call'.cmds[1].tool = "lvs"]_vars

\* getLv("v1") has answered from the cache right after _invalidatelvs("v1"),
\* v1 being in the fresh-LV set with no cached LV.
C37_Witness ==
    /\ _cache_lvs
    /\ prev[1] = InvLvOp("v1")
    /\ last.op = GetLvOp("v1") /\ call.cmds = <<>>
    /\ "v1" \in _freshlv /\ LvNamesIn(_lvs, "v1") = {}


-----------------------------------------------------------------------------
(* Properties of the invalidation of the filter.                            *)

\* The filters made of an enumeration that started after g device changes.
FiltersSince(g) == {_buildFilter(<<1 + n>>) : n \in g..MaxChanges}

\* C38 as stated: a command without devices that a thread is about to run
\* has a filter made of an enumeration that started after every
\* invalidateFilter() that returned before the thread entered cmd(), however
\* the threads interleave.
C38_InvalidationIsNotLost ==
    \A t \in FrThreads :
        (cmdst[t].pc = "run" /\ ~UseDevices(cmdst[t]))
        => cmdst[t].full_cmd.filter \in FiltersSince(rthreads[t].sawGen)


-----------------------------------------------------------------------------
(* Properties of the ways out of cmd().                                     *)

\* The threads between taking the shared lock and releasing it.
InBlock == {t \in DOMAIN cmdst : cmdst[t].pc \in InBody}

\* C39: however cmd() ends (a success at the first command, at the wider
\* one or in the retry loop, the final failure, an exception of the runner
\* or of the rebuild of the filter), the permit and the shared lock it took
\* are released, each once: the permits out are those of the threads between
\* the acquisition and the release, the shared holders are the threads in
\* the body, a thread asleep between retries among them; a release frees one
\* permit, or one holder, of a thread that is leaving; and when no cmd() is
\* in progress every permit is back and no thread holds the shared lock, so
\* that set_read_only() can take the exclusive one.
C39_EveryExitReleasesOnce ==
    /\ [](/\ cmd_sem = MAX_COMMANDS - Cardinality(PermitHolders)
          /\ ro_readers = InBlock
          /\ \A t \in DOMAIN cmdst :
                 cmdst[t].pc = "sleep" => t \in PermitHolders \cap ro_readers
          /\ (\A t \in DOMAIN cmdst : cmdst[t].pc \in Outside)
                 => /\ cmd_sem = MAX_COMMANDS
                    /\ ro_readers = {}
                    /\ (ro_writer = {} => SroLockFree))
    /\ [][/\ cmd_sem' > cmd_sem
             => /\ cmd_sem' = cmd_sem + 1
                /\ \E t \in DOMAIN cmdst :
                       cmdst[t].pc = "exit_sem" /\ cmdst'[t].pc = "ret"
          /\ ro_readers' # ro_readers /\ ro_readers' \subseteq ro_readers
             => \E t \in DOMAIN cmdst :
                    /\ ro_readers' = ro_readers \ {t}
                    /\ cmdst[t].pc = "exit" /\ cmdst'[t].pc = "exit_sem"]_vars

\* Both threads are back from cmd() with an exception: the first after its
\* first command failed and the rebuild of the filter raised, the second
\* after the runner raised at once; every permit is back and the shared lock
\* has no holder.
C39_Witness ==
    /\ cmdst[1].pc = "ret" /\ cmdst[1].rc = -2
    /\ cmdst[1].stage = 2 /\ Len(cmdst[1].execs) = 1 /\ filter = NoFilter
    /\ cmdst[2].pc = "ret" /\ cmdst[2].rc = -2 /\ cmdst[2].execs = <<>>
    /\ cmd_sem = MAX_COMMANDS /\ ro_readers = {} /\ filterLock = {}

====
